---- MODULE Spec2Model ----
(***************************************************************************)
(* Argument processing of the compiler cache: Arg, Args and process_args   *)
(* (src/src/Arg.cpp, src/src/Args.hpp, src/src/argprocessing.cpp).         *)
(*                                                                         *)
(* A std::string is a sequence of one-character strings, so that find,     *)
(* substr, starts_with and the '=' split of Arg are computed, not assumed. *)
(***************************************************************************)
EXTENDS Integers, Sequences, FiniteSets, TLC

\* ------------------------------------------------------------------ strings

\* Util::starts_with(s, p)
StartsWith(s, p) == Len(s) >= Len(p) /\ SubSeq(s, 1, Len(p)) = p

\* Util::ends_with(s, p)
EndsWith(s, p) == Len(s) >= Len(p) /\ SubSeq(s, Len(s) - Len(p) + 1, Len(s)) = p

\* std::string::find(c, pos): the 1-based index of the first c at 0-based
\* offset >= pos, 0 for npos.
Find(s, c, pos) ==
  LET hits == {k \in (pos + 1)..Len(s) : s[k] = c}
  IN IF hits = {} THEN 0 ELSE CHOOSE k \in hits : \A h \in hits : k <= h

\* std::string::rfind(c): the 1-based index of the last c, 0 for npos.
RFind(s, c) ==
  LET hits == {k \in 1..Len(s) : s[k] = c}
  IN IF hits = {} THEN 0 ELSE CHOOSE k \in hits : \A h \in hits : k >= h

\* std::string::find(sub) != npos
Contains(s, sub) ==
  \E k \in 1..(Len(s) - Len(sub) + 1) : SubSeq(s, k, k + Len(sub) - 1) = sub

\* string_view::substr(pos) with a 0-based pos.
Substr(s, pos) == SubSeq(s, pos + 1, Len(s))

\* islower(c) for the characters the model uses.
IsLower(c) ==
  c \in {"a", "b", "c", "d", "e", "f", "g", "h", "i", "j", "k", "l", "m", "n",
         "o", "p", "q", "r", "s", "t", "u", "v", "w", "x", "y", "z"}

\* ---------------------------------------------------------------------- Arg

ArgSplit == {"not_split", "equal_sign", "space", "written_together"}

\* The value a throwing constructor leaves in place of an Arg.
InvalidArg == [error |-> "invalid usage of constructor"]

\* A variant of ArgFromToken that splits on the last '='.
ArgFromToken_last(full) ==
  LET sep_pos == RFind(full, "=")
  IN IF sep_pos # 0
     THEN [full |-> full, split_char |-> "equal_sign",
           key |-> SubSeq(full, 1, sep_pos - 1),
           value |-> SubSeq(full, sep_pos + 1, Len(full))]
     ELSE [full |-> full, split_char |-> "not_split", key |-> <<>>, value |-> <<>>]

\* Arg::Arg(string_view full): split on the first '='.
ArgFromToken(full) ==
  LET sep_pos == Find(full, "=", 0)
  IN IF sep_pos # 0
     THEN [full |-> full, split_char |-> "equal_sign",
           key |-> SubSeq(full, 1, sep_pos - 1),
           value |-> SubSeq(full, sep_pos + 1, Len(full))]
     ELSE [full |-> full, split_char |-> "not_split", key |-> <<>>, value |-> <<>>]

\* static to_string(key, split_char, value)
to_string(key, split_char, value) ==
  CASE split_char = "equal_sign" -> key \o <<"=">> \o value
    [] split_char = "space" -> key \o <<" ">> \o value
    [] split_char = "written_together" -> key \o value
    [] OTHER -> <<"i","n","t","e","r","n","a","l"," ","e","r","r","o","r">>

\* A variant of ArgFromParts that leaves m_split_char as it is initialised.
ArgFromParts_unsplit(key, split_char, value) ==
  IF split_char = "not_split"
  THEN InvalidArg
  ELSE LET m_full == to_string(key, split_char, value)
           skip == IF split_char # "written_together" THEN 1 ELSE 0
       IN [full |-> m_full, split_char |-> "not_split",
           key |-> SubSeq(m_full, 1, Len(key)),
           value |-> Substr(m_full, Len(key) + skip)]

\* Arg::Arg(key, split_char, value): m_key and m_value are slices of m_full.
ArgFromParts(key, split_char, value) ==
  IF split_char = "not_split"
  THEN InvalidArg
  ELSE LET m_full == to_string(key, split_char, value)
           skip == IF split_char # "written_together" THEN 1 ELSE 0
       IN [full |-> m_full, split_char |-> split_char,
           key |-> SubSeq(m_full, 1, Len(key)),
           value |-> Substr(m_full, Len(key) + skip)]

\* Arg::operator==(string): Args compare by their full string.
Is(arg, str) == arg.full = str

\* Args::push_back(const Args&)
Concat(a, b) == a \o b

\* The full strings of an argument vector, as to_argv() hands them on.
Fulls(v) == [k \in 1..Len(v) |-> v[k].full]

\* The set of full strings of an argument vector.
FullSet(v) == {v[k].full : k \in 1..Len(v)}

\* Args::replace(index, sub): erase one Arg, insert sub at the same position
\* (index is 0-based).
Replace(v, index, sub) ==
  SubSeq(v, 1, index) \o sub \o SubSeq(v, index + 2, Len(v))

\* Args::insert(index, sub) (index is 0-based).
Insert(v, index, sub) ==
  SubSeq(v, 1, index) \o sub \o SubSeq(v, index + 1, Len(v))

\* One pass of parameter fusion from position k of v for the parameter
\* param with the allowed splits.
RECURSIVE FuseFrom(_, _, _, _)
FuseFrom(v, k, param, splits) ==
  IF k > Len(v) THEN <<>>
  ELSE LET t == v[k]
       IN IF /\ "space" \in splits
             /\ t.split_char = "not_split"
             /\ t.full = param
             /\ k < Len(v)
             /\ v[k + 1].split_char \in {"not_split", "equal_sign"}
             /\ ~StartsWith(v[k + 1].full, <<"-">>)
          THEN <<ArgFromParts(param, "space", v[k + 1].full)>>
                 \o FuseFrom(v, k + 2, param, splits)
          ELSE IF /\ "equal_sign" \in splits
                  /\ t.split_char = "equal_sign"
                  /\ t.key = param
          THEN <<t>> \o FuseFrom(v, k + 1, param, splits)
          ELSE IF /\ "written_together" \in splits
                  /\ t.split_char \in {"not_split", "equal_sign"}
                  /\ StartsWith(t.full, param)
                  /\ Len(t.full) > Len(param)
          THEN <<ArgFromParts(param, "written_together", Substr(t.full, Len(param)))>>
                 \o FuseFrom(v, k + 1, param, splits)
          ELSE <<t>> \o FuseFrom(v, k + 1, param, splits)

\* Args::add_param(param, splits): fuse the tokens that match the parameter.
add_param(v, param, splits) == FuseFrom(v, 1, param, splits)

\* ------------------------------------------------- the services process_args uses

\* The files the file-stat oracle knows as regular files.
RegularFiles == {<<"a",".","c">>, <<"b",".","c">>, <<"l",".","o">>, <<".","/","a",".","c">>, <<"h",".","h",".","g","c","h">>, <<"p",".","p","c","h">>, <<"a",".","c","u">>, <<"a",".","z","z">>}

\* The directories the file-stat oracle knows.
Directories == {<<".">>, <<"/">>, <<"/","w">>, <<"/","d","e","v">>, <<"d">>}

\* Stat::stat(path): "regular", "directory" or "none".
Stat(path) ==
  IF path \in RegularFiles THEN "regular"
  ELSE IF path \in Directories THEN "directory"
  ELSE "none"

\* The working directory of the call (ctx.apparent_cwd).
apparent_cwd == <<"/","w">>

\* Util::make_relative_path(ctx, path): with a base directory that is a prefix
\* of an absolute path, the path is rewritten relative to the working
\* directory; every other path is returned as it is.
make_relative_path(base_dir, path) ==
  IF base_dir = <<>> \/ ~StartsWith(path, base_dir) THEN path
  ELSE IF path = apparent_cwd THEN <<".">>
  ELSE IF StartsWith(path, apparent_cwd \o <<"/">>)
       THEN <<".">> \o Substr(path, Len(apparent_cwd))
  ELSE <<".",".">> \o path

\* Util::get_extension(path): from the last '.' after the last '/'.
get_extension(path) ==
  LET dot == RFind(path, ".")
      slash == RFind(path, "/")
  IN IF dot = 0 \/ dot < slash THEN <<>> ELSE SubSeq(path, dot, Len(path))

\* Util::change_extension(path, new_ext)
change_extension(path, new_ext) ==
  SubSeq(path, 1, Len(path) - Len(get_extension(path))) \o new_ext

\* Util::base_name(path)
base_name(path) == Substr(path, RFind(path, "/"))

\* Util::dir_name(path)
dir_name(path) ==
  LET slash == RFind(path, "/")
  IN IF slash = 0 THEN <<".">>
     ELSE IF slash = 1 THEN <<"/">>
     ELSE SubSeq(path, 1, slash - 1)

\* Util::is_precompiled_header(path)
is_precompiled_header(path) == get_extension(path) \in {<<".","g","c","h">>, <<".","p","c","h">>, <<".","p","t","h">>}

\* language_for_file(fname): the language of the file's extension, "" if none.
language_for_file(fname) ==
  LET ext == get_extension(fname)
  IN CASE ext = <<".","c">> -> <<"c">>
       [] ext = <<".","i">> -> <<"c","p","p","-","o","u","t","p","u","t">>
       [] ext = <<".","c","u">> -> <<"c","u">>
       [] ext = <<".","h">> -> <<"c","-","h","e","a","d","e","r">>
       [] ext = <<".","s">> -> <<"a","s","s","e","m","b","l","e","r">>
       [] OTHER -> <<>>

\* p_language_for_language(language): the language of the preprocessed form.
p_language_for_language(language) ==
  CASE language = <<"c">> -> <<"c","p","p","-","o","u","t","p","u","t">>
    [] language = <<"c","p","p","-","o","u","t","p","u","t">> -> <<"c","p","p","-","o","u","t","p","u","t">>
    [] language = <<"c","-","h","e","a","d","e","r">> -> <<"c","p","p","-","o","u","t","p","u","t">>
    [] language = <<"c","u">> -> <<"c","p","p","-","o","u","t","p","u","t">>
    [] language = <<"a","s","s","e","m","b","l","e","r">> -> <<"a","s","s","e","m","b","l","e","r">>
    [] OTHER -> <<>>

\* language_is_supported(language)
language_is_supported(language) == p_language_for_language(language) # <<>>

\* language_is_preprocessed(language)
language_is_preprocessed(language) == language = p_language_for_language(language)

\* The option table of compopt: each option with the properties it has.
compopts ==
  { [name |-> <<"-","M">>, flags |-> {"TOO_HARD"}],
    [name |-> <<"-","s","a","v","e","-","t","e","m","p","s">>, flags |-> {"TOO_HARD"}],
    [name |-> <<"-","X","p","r","e","p","r","o","c","e","s","s","o","r">>, flags |-> {"TOO_HARD_DIRECT"}],
    [name |-> <<"-","W","e","r","r","o","r">>, flags |-> {"AFFECTS_COMP"}],
    [name |-> <<"-","W","n","o","-","e","r","r","o","r">>, flags |-> {"AFFECTS_COMP"}],
    [name |-> <<"-","X","l","i","n","k","e","r">>, flags |-> {"AFFECTS_COMP", "TAKES_ARG", "TAKES_CONCAT_ARG"}],
    [name |-> <<"-","W","a",",">>, flags |-> {"AFFECTS_COMP", "TAKES_CONCAT_ARG"}],
    [name |-> <<"-","e","m","i","t","-","p","c","h">>, flags |-> {"AFFECTS_COMP"}],
    [name |-> <<"-","D">>, flags |-> {"AFFECTS_CPP", "TAKES_CONCAT_ARG"}],
    [name |-> <<"-","I">>, flags |-> {"AFFECTS_CPP", "TAKES_ARG", "TAKES_CONCAT_ARG", "TAKES_PATH"}],
    [name |-> <<"-","i","s","y","s","t","e","m">>, flags |-> {"AFFECTS_CPP", "TAKES_ARG", "TAKES_CONCAT_ARG", "TAKES_PATH"}],
    [name |-> <<"-","B">>, flags |-> {"TAKES_ARG", "TAKES_CONCAT_ARG", "TAKES_PATH"}],
    [name |-> <<"-","i","n","c","l","u","d","e">>, flags |-> {"AFFECTS_CPP", "TAKES_ARG", "TAKES_PATH"}],
    [name |-> <<"-","i","n","c","l","u","d","e","-","p","c","h">>, flags |-> {"AFFECTS_CPP", "TAKES_ARG", "TAKES_PATH"}],
    [name |-> <<"-","t","r","i","g","r","a","p","h","s">>, flags |-> {"AFFECTS_CPP"}],
    [name |-> <<"-","-","p","a","r","a","m">>, flags |-> {"TAKES_ARG"}] }

\* find(option): the properties of the option with this exact name.
compopt_flags(option) ==
  UNION {co.flags : co \in {c \in compopts : c.name = option}}

\* find_prefix(option): the properties of the options that are a prefix of it.
compopt_prefix_flags(option) ==
  UNION {co.flags : co \in {c \in compopts : StartsWith(option, c.name)}}

compopt_too_hard(option) == "TOO_HARD" \in compopt_flags(option)

compopt_too_hard_for_direct_mode(option) == "TOO_HARD_DIRECT" \in compopt_flags(option)

compopt_takes_arg(option) == "TAKES_ARG" \in compopt_flags(option)

compopt_takes_concat_arg(option) == "TAKES_CONCAT_ARG" \in compopt_flags(option)

compopt_takes_path(option) == "TAKES_PATH" \in compopt_flags(option)

compopt_affects_cpp(option) == "AFFECTS_CPP" \in compopt_flags(option)

compopt_affects_comp(option) == "AFFECTS_COMP" \in compopt_flags(option)

\* Prefix options have to take concatenated arguments.
compopt_prefix_affects_cpp(option) ==
  \E c \in compopts : /\ StartsWith(option, c.name)
                      /\ {"TAKES_CONCAT_ARG", "AFFECTS_CPP"} \subseteq c.flags

compopt_prefix_affects_comp(option) ==
  \E c \in compopts : /\ StartsWith(option, c.name)
                      /\ {"TAKES_CONCAT_ARG", "AFFECTS_COMP"} \subseteq c.flags

\* The response files the call can read: path -> the tokens of the file.
ArgFiles ==
  [ path \in {<<"r","f">>, <<"r","s">>, <<"r","x">>, <<"r","p">>, <<"r","n">>, <<"r","a">>, <<"r","b">>} |->
      CASE path = <<"r","f">> -> <<<<"-","M","F">>, <<"x",".","d">>>>
        [] path = <<"r","s">> -> <<<<"@","r","s">>>>
        [] path = <<"r","x">> -> <<<<"-","x">>, <<"c">>>>
        [] path = <<"r","p">> -> <<<<"-","D","X">>, <<"-","g","1">>>>
        [] path = <<"r","n">> -> <<<<"@","r","p">>, <<"-","M","D">>>>
        [] path = <<"r","a">> -> <<<<"@","r","b">>>>
        [] path = <<"r","b">> -> <<<<"@","r","a">>>> ]

\* Args::from_gcc_atfile(filename): the tokens of the file as Args, or "none"
\* when the file cannot be read.
from_gcc_atfile(filename) ==
  IF filename \in DOMAIN ArgFiles
  THEN [ok |-> TRUE,
        args |-> [k \in 1..Len(ArgFiles[filename]) |-> ArgFromToken(ArgFiles[filename][k])]]
  ELSE [ok |-> FALSE, args |-> <<>>]

\* Util::split_into_strings(s, sep): the non-empty pieces of s between
\* separators, in order.
RECURSIVE split_into_strings(_, _)
split_into_strings(s, sep) ==
  IF s = <<>> THEN <<>>
  ELSE LET p == Find(s, sep, 0)
       IN IF p = 0 THEN <<s>>
          ELSE IF p = 1 THEN split_into_strings(Substr(s, 1), sep)
          ELSE <<SubSeq(s, 1, p - 1)>> \o split_into_strings(Substr(s, p), sep)

\* Reverses a sequence.
Reverse(v) == [k \in 1..Len(v) |-> v[Len(v) + 1 - k]]

\* -------------------------------------------------------------- process_arg
\*
\* The operators below take and return the record s of everything process_arg
\* reads and writes: args and the index i into it (0-based, as in the code),
\* the ArgumentProcessingState state, ctx.args_info, ctx.config,
\* ctx.guessed_compiler, ctx.included_pch_file and stat, the Statistic the
\* call returns ("none" while there is none).

\* args[i]
CurArg(s) == s.args[s.i + 1]

\* args[i + n]
ArgAt(s, n) == s.args[s.i + 1 + n]

\* i == args.size() - 1
IsLastArg(s) == s.i = Len(s.args) - 1

\* return <Statistic>
Fail(s, statistic) == [s EXCEPT !.stat = statistic]

\* Util::make_relative_path(ctx, path) with the base directory of ctx.config.
Rel(s, path) == make_relative_path(s.config.base_dir, path)

PushCommon(s, arg) == [s EXCEPT !.state.common_args = Append(@, arg)]

PushCpp(s, arg) == [s EXCEPT !.state.cpp_args = Append(@, arg)]

PushDep(s, arg) == [s EXCEPT !.state.dep_args = Append(@, arg)]

PushCompilerOnly(s, arg) == [s EXCEPT !.state.compiler_only_args = Append(@, arg)]

\* A variant of detect_pch in which the last precompiled header wins.
detect_pch_last_wins(s, option, arg, is_cc1_option) ==
  LET exts == <<<<".","g","c","h">>, <<".","p","c","h">>, <<".","p","t","h">>>>
      found == {k \in 1..Len(exts) : Stat(arg \o exts[k]) # "none"}
      pch_file ==
        IF option \in {<<"-","i","n","c","l","u","d","e","-","p","c","h">>, <<"-","i","n","c","l","u","d","e","-","p","t","h">>}
        THEN IF Stat(arg) # "none" THEN arg ELSE <<>>
        ELSE IF ~is_cc1_option /\ found # {}
             THEN arg \o exts[CHOOSE k \in found : \A h \in found : k >= h]
        ELSE <<>>
  IN IF pch_file = <<>> THEN [ok |-> TRUE, s |-> s]
     ELSE [ok |-> TRUE,
           s |-> [s EXCEPT !.included_pch_file = pch_file, !.state.found_pch = TRUE]]

\* detect_pch(ctx, option, arg, is_cc1_option, &found_pch): the record after
\* the call, with ok = FALSE when it returns false.
detect_pch(s, option, arg, is_cc1_option) ==
  LET exts == <<<<".","g","c","h">>, <<".","p","c","h">>, <<".","p","t","h">>>>
      found == {k \in 1..Len(exts) : Stat(arg \o exts[k]) # "none"}
      pch_file ==
        IF option \in {<<"-","i","n","c","l","u","d","e","-","p","c","h">>, <<"-","i","n","c","l","u","d","e","-","p","t","h">>}
        THEN IF Stat(arg) # "none" THEN arg ELSE <<>>
        ELSE IF ~is_cc1_option /\ found # {}
             THEN arg \o exts[CHOOSE k \in found : \A h \in found : k >= h]
        ELSE <<>>
  IN IF pch_file = <<>> THEN [ok |-> TRUE, s |-> s]
     ELSE IF s.included_pch_file # <<>> THEN [ok |-> FALSE, s |-> s]
     ELSE [ok |-> TRUE,
           s |-> [s EXCEPT !.included_pch_file = pch_file, !.state.found_pch = TRUE]]

\* process_profiling_option(ctx, arg): the record after the call, with
\* ok = FALSE when it returns false.
process_profiling_option(s, argStr) ==
  LET arg == ArgFromToken(argStr)
      known_simple_options ==
        {<<"-","f","p","r","o","f","i","l","e","-","c","o","r","r","e","c","t","i","o","n">>, <<"-","f","p","r","o","f","i","l","e","-","r","e","o","r","d","e","r","-","f","u","n","c","t","i","o","n","s">>,
         <<"-","f","p","r","o","f","i","l","e","-","s","a","m","p","l","e","-","a","c","c","u","r","a","t","e">>, <<"-","f","p","r","o","f","i","l","e","-","v","a","l","u","e","s">>}
      gen_plain == arg.full \in {<<"-","f","p","r","o","f","i","l","e","-","g","e","n","e","r","a","t","e">>, <<"-","f","p","r","o","f","i","l","e","-","i","n","s","t","r","-","g","e","n","e","r","a","t","e">>}
      gen_key == arg.key \in {<<"-","f","p","r","o","f","i","l","e","-","g","e","n","e","r","a","t","e">>, <<"-","f","p","r","o","f","i","l","e","-","i","n","s","t","r","-","g","e","n","e","r","a","t","e">>}
      use_plain == arg.full \in {<<"-","f","p","r","o","f","i","l","e","-","u","s","e">>, <<"-","f","p","r","o","f","i","l","e","-","i","n","s","t","r","-","u","s","e">>,
                                 <<"-","f","p","r","o","f","i","l","e","-","s","a","m","p","l","e","-","u","s","e">>, <<"-","f","b","r","a","n","c","h","-","p","r","o","b","a","b","i","l","i","t","i","e","s">>,
                                 <<"-","f","a","u","t","o","-","p","r","o","f","i","l","e">>}
      use_key == arg.key \in {<<"-","f","p","r","o","f","i","l","e","-","u","s","e">>, <<"-","f","p","r","o","f","i","l","e","-","i","n","s","t","r","-","u","s","e">>,
                              <<"-","f","p","r","o","f","i","l","e","-","s","a","m","p","l","e","-","u","s","e">>, <<"-","f","a","u","t","o","-","p","r","o","f","i","l","e">>}
      is_dir == arg.key = <<"-","f","p","r","o","f","i","l","e","-","d","i","r">>
      known == is_dir \/ gen_plain \/ gen_key \/ use_plain \/ use_key
      new_profile_path ==
        IF is_dir THEN arg.value
        ELSE IF gen_plain
             THEN (IF s.guessed_compiler = "clang" THEN <<".">> ELSE apparent_cwd)
        ELSE IF gen_key THEN arg.value
        ELSE IF use_plain
             THEN (IF s.args_info.profile_path = <<>> THEN <<".">> ELSE <<>>)
        ELSE arg.value
      new_profile_use == ~is_dir /\ ~gen_plain /\ ~gen_key /\ (use_plain \/ use_key)
      s1 == IF ~is_dir /\ (gen_plain \/ gen_key)
            THEN [s EXCEPT !.args_info.profile_generate = TRUE]
            ELSE s
      s2 == IF new_profile_use THEN [s1 EXCEPT !.args_info.profile_use = TRUE] ELSE s1
      s3 == IF new_profile_path # <<>>
            THEN [s2 EXCEPT !.args_info.profile_path = new_profile_path]
            ELSE s2
  IN IF argStr \in known_simple_options THEN [ok |-> TRUE, s |-> s]
     ELSE IF ~known THEN [ok |-> FALSE, s |-> s]
     ELSE IF new_profile_use /\ s1.args_info.profile_use THEN [ok |-> FALSE, s |-> s1]
     ELSE IF s3.args_info.profile_generate /\ s3.args_info.profile_use
          THEN [ok |-> FALSE, s |-> s3]
     ELSE [ok |-> TRUE, s |-> s3]

\* "--ccache-skip <tok>": the user knows best, just swallow the next arg.
rule_ccache_skip(s) == PushCommon(s, ArgFromToken(CurArg(s).value))

\* "@file" and "-@file": the token is replaced by the tokens of the file and
\* the same index is processed again.
rule_atfile(s) ==
  LET full == CurArg(s).full
      argpath == IF full[1] = "-" THEN Substr(full, 2) ELSE Substr(full, 1)
      file_args == from_gcc_atfile(argpath)
  IN IF ~file_args.ok THEN Fail(s, "bad_compiler_arguments")
     ELSE [s EXCEPT !.args = Replace(s.args, s.i, file_args.args), !.i = s.i - 1]

\* The loop over the paths of -optf, last path first: each file's tokens are
\* inserted after index i; an unreadable file ends the call.
RECURSIVE insert_options_files(_, _)
insert_options_files(s, rpaths) ==
  IF rpaths = <<>> THEN s
  ELSE LET file_args == from_gcc_atfile(Head(rpaths))
       IN IF ~file_args.ok THEN Fail(s, "bad_compiler_arguments")
          ELSE insert_options_files(
                 [s EXCEPT !.args = Insert(s.args, s.i + 1, file_args.args)],
                 Tail(rpaths))

\* cuda "-optf" and "--options-file": a comma-separated list of files.
rule_options_file(s) ==
  insert_options_files(s, Reverse(split_into_strings(CurArg(s).value, ",")))

\* "-arch <v>"
rule_arch(s) ==
  LET s1 == [s EXCEPT !.args_info.arch_args = Append(@, CurArg(s).value)]
  IN IF Len(s1.args_info.arch_args) = 2
     THEN [s1 EXCEPT !.config.run_second_cpp = TRUE]
     ELSE s1

\* The options clang passes to cc1 that need the usual handling.
IsXclangPch(s) ==
  /\ Is(CurArg(s), <<"-","X","c","l","a","n","g">>)
  /\ s.i < Len(s.args) - 1
  /\ ArgAt(s, 1).full \in {<<"-","e","m","i","t","-","p","c","h">>, <<"-","e","m","i","t","-","p","t","h">>, <<"-","i","n","c","l","u","d","e","-","p","c","h">>,
                           <<"-","i","n","c","l","u","d","e","-","p","t","h">>, <<"-","f","n","o","-","p","c","h","-","t","i","m","e","s","t","a","m","p">>}

\* The -Xclang prefix is routed by the cc1 option that follows it and skipped.
rule_xclang(s) ==
  LET nextopt == ArgAt(s, 1).full
      xclang == ArgFromToken(<<"-","X","c","l","a","n","g">>)
      s1 == IF compopt_affects_comp(nextopt) THEN PushCompilerOnly(s, xclang)
            ELSE IF compopt_affects_cpp(nextopt) THEN PushCpp(s, xclang)
            ELSE PushCommon(s, xclang)
  IN [s1 EXCEPT !.i = s.i + 1]

\* A variant of rule_affects_comp that treats the option as an ordinary one.
rule_affects_comp_common(s) ==
  LET s1 == PushCommon(s, CurArg(s))
  IN IF \/ compopt_takes_arg(CurArg(s).full)
        \/ (s.guessed_compiler = "nvcc" /\ Is(CurArg(s), <<"-","W","e","r","r","o","r">>))
     THEN IF IsLastArg(s) THEN Fail(s1, "bad_compiler_arguments")
          ELSE [PushCommon(s1, ArgAt(s, 1)) EXCEPT !.i = s.i + 1]
     ELSE s1

\* Options that should not be passed to the preprocessor.
rule_affects_comp(s) ==
  LET s1 == PushCompilerOnly(s, CurArg(s))
  IN IF \/ compopt_takes_arg(CurArg(s).full)
        \/ (s.guessed_compiler = "nvcc" /\ Is(CurArg(s), <<"-","W","e","r","r","o","r">>))
     THEN IF IsLastArg(s) THEN Fail(s1, "bad_compiler_arguments")
          ELSE [PushCompilerOnly(s1, ArgAt(s, 1)) EXCEPT !.i = s.i + 1]
     ELSE s1

rule_prefix_affects_comp(s) == PushCompilerOnly(s, CurArg(s))

\* "-fmodules" is unsupported without direct depend mode and the "modules"
\* sloppiness.
fmodules_unsupported(s) ==
  \/ ~s.config.depend_mode
  \/ ~s.config.direct_mode
  \/ "modules" \notin s.config.sloppiness

\* A variant of rule_x in which the last language of the command line wins.
rule_x_last_wins(s) ==
  LET value == CurArg(s).value
  IN IF value = <<>> \/ ~IsLower(value[1]) THEN PushCommon(s, CurArg(s))
     ELSE [s EXCEPT !.state.explicit_language = value]

\* "-x": -xCODE with an uppercase CODE is an ordinary Intel option; otherwise
\* the last language before the input file is remembered and -x is stripped.
rule_x(s) ==
  LET value == CurArg(s).value
  IN IF value = <<>> \/ ~IsLower(value[1]) THEN PushCommon(s, CurArg(s))
     ELSE IF s.args_info.input_file = <<>>
          THEN [s EXCEPT !.state.explicit_language = value]
     ELSE s

\* "-o <path>"
rule_o(s) ==
  IF IsLastArg(s) THEN Fail(s, "bad_compiler_arguments")
  ELSE [s EXCEPT !.args_info.output_obj = Rel(s, ArgAt(s, 1).full), !.i = s.i + 1]

\* "-o<path>"
rule_o_concat(s) ==
  [s EXCEPT !.args_info.output_obj = Rel(s, Substr(CurArg(s).full, 2))]

\* "-fdebug-prefix-map=<v>" and "-ffile-prefix-map=<v>"
rule_prefix_map(s) ==
  PushCommon([s EXCEPT !.args_info.debug_prefix_maps = Append(@, CurArg(s).value)],
             CurArg(s))

\* A variant of rule_g that passes the option to the preprocessor only.
rule_g_to_cpp(s) == PushCpp(s, CurArg(s))

\* "-g*": debugging is handled specially.
rule_g(s) ==
  LET arg == CurArg(s)
      s1 == PushCommon(s, arg)
      last_char == arg.full[Len(arg.full)]
  IN IF StartsWith(arg.full, <<"-","g","d","w","a","r","f">>)
     THEN [s1 EXCEPT !.args_info.generating_debuginfo = TRUE]
     ELSE IF StartsWith(arg.full, <<"-","g","z">>) THEN s1
     ELSE IF last_char = "0"
          THEN [s1 EXCEPT !.args_info.generating_debuginfo = FALSE,
                          !.state.generating_debuginfo_level_3 = FALSE]
     ELSE [s1 EXCEPT !.args_info.generating_debuginfo = TRUE,
                     !.state.generating_debuginfo_level_3 =
                        IF last_char = "3" THEN TRUE ELSE @,
                     !.args_info.seen_split_dwarf =
                        IF Is(arg, <<"-","g","s","p","l","i","t","-","d","w","a","r","f">>) THEN TRUE ELSE @]

\* A variant of rule_MD that also passes the option on as an ordinary one.
rule_MD_both(s) ==
  PushCommon(PushDep([s EXCEPT !.args_info.generating_dependencies = TRUE,
                               !.args_info.seen_MD_MMD = TRUE],
                     CurArg(s)),
             CurArg(s))

\* "-MD" and "-MMD"
rule_MD(s) ==
  PushDep([s EXCEPT !.args_info.generating_dependencies = TRUE,
                    !.args_info.seen_MD_MMD = TRUE],
          CurArg(s))

\* A variant of MF_split that keeps the "=" of the token.
MF_split_kept(split_char) == split_char

\* The split with which a -MF option is emitted: "=" is written together.
MF_split(split_char) ==
  IF split_char = "equal_sign" THEN "written_together" ELSE split_char

\* "-MF": the dependency file name, in any gluing.
rule_MF(s) ==
  LET arg == CurArg(s)
      dep_file == Rel(s, arg.value)
  IN PushDep([s EXCEPT !.state.dependency_filename_specified = TRUE],
             ArgFromParts(arg.key, MF_split(arg.split_char), dep_file))

\* "-MQ" and "-MT": the dependency target.
rule_MQ_MT(s) ==
  LET arg == CurArg(s)
      relpath == Rel(s, arg.value)
  IN PushDep([s EXCEPT !.args_info.dependency_target_specified = TRUE],
             ArgFromParts(arg.key, arg.split_char, relpath))

\* "-fprofile-arcs", "-ftest-coverage", "-fstack-usage", "--coverage"
rule_coverage(s) ==
  LET arg == CurArg(s)
      s1 == IF Is(arg, <<"-","f","p","r","o","f","i","l","e","-","a","r","c","s">>) THEN [s EXCEPT !.args_info.profile_arcs = TRUE]
            ELSE IF Is(arg, <<"-","f","t","e","s","t","-","c","o","v","e","r","a","g","e">>)
                 THEN [s EXCEPT !.args_info.generating_coverage = TRUE]
            ELSE IF Is(arg, <<"-","f","s","t","a","c","k","-","u","s","a","g","e">>)
                 THEN [s EXCEPT !.args_info.generating_stackusage = TRUE]
            ELSE [s EXCEPT !.args_info.profile_arcs = TRUE,
                           !.args_info.generating_coverage = TRUE]
  IN PushCommon(s1, arg)

\* A variant of rule_profiling that overlooks what process_profiling_option
\* returns.
rule_profiling_unchecked(s) ==
  PushCommon(process_profiling_option(s, CurArg(s).full).s, CurArg(s))

\* "-fprofile-*", "-fauto-profile*", "-fbranch-probabilities"
rule_profiling(s) ==
  LET r == process_profiling_option(s, CurArg(s).full)
  IN IF ~r.ok THEN Fail(r.s, "unsupported_compiler_option")
     ELSE PushCommon(r.s, CurArg(s))

\* "-fsanitize-blacklist=<v>"
rule_sanitize_blacklist(s) ==
  PushCommon([s EXCEPT !.args_info.sanitize_blacklists = Append(@, CurArg(s).value)],
             CurArg(s))

\* A variant of rule_sysroot_eq that passes the token on as it is.
rule_sysroot_eq_verbatim(s) == PushCommon(s, CurArg(s))

\* "--sysroot=<v>"
rule_sysroot_eq(s) ==
  PushCommon(s, ArgFromToken(<<"-","-","s","y","s","r","o","o","t","=">> \o Rel(s, CurArg(s).value)))

\* "--sysroot <v>"
rule_sysroot(s) ==
  IF IsLastArg(s) THEN Fail(s, "bad_compiler_arguments")
  ELSE [PushCommon(PushCommon(s, CurArg(s)), ArgFromToken(Rel(s, ArgAt(s, 1).full)))
          EXCEPT !.i = s.i + 1]

\* A variant of rule_target that makes the value relative, as rule_sysroot.
rule_target_relative(s) ==
  IF IsLastArg(s) THEN Fail(s, "bad_compiler_arguments")
  ELSE [PushCommon(PushCommon(s, CurArg(s)), ArgFromToken(Rel(s, ArgAt(s, 1).full)))
          EXCEPT !.i = s.i + 1]

\* "-target <v>"
rule_target(s) ==
  IF IsLastArg(s) THEN Fail(s, "bad_compiler_arguments")
  ELSE [PushCommon(PushCommon(s, CurArg(s)), ArgAt(s, 1)) EXCEPT !.i = s.i + 1]

\* "-Wp,*": the options passed to the preprocessor.
rule_Wp(s) ==
  LET arg == CurArg(s)
      full == arg.full
  IN IF Is(arg, <<"-","W","p",",","-","P">>) \/ Contains(full, <<",","-","P",",">>) \/ EndsWith(full, <<",","-","P">>)
     THEN Fail(s, "unsupported_compiler_option")
     ELSE IF StartsWith(full, <<"-","W","p",",","-","M","D",",">>) /\ Find(full, ",", 8) = 0
     THEN PushDep([s EXCEPT !.args_info.generating_dependencies = TRUE,
                            !.state.dependency_filename_specified = TRUE,
                            !.args_info.output_dep = Rel(s, Substr(full, 8))],
                  arg)
     ELSE IF StartsWith(full, <<"-","W","p",",","-","M","M","D",",">>) /\ Find(full, ",", 9) = 0
     THEN PushDep([s EXCEPT !.args_info.generating_dependencies = TRUE,
                            !.state.dependency_filename_specified = TRUE,
                            !.args_info.output_dep = Rel(s, Substr(full, 9))],
                  arg)
     ELSE IF StartsWith(full, <<"-","W","p",",","-","D">>) /\ Find(full, ",", 6) = 0
     THEN PushCpp(s, ArgFromToken(Substr(full, 4)))
     ELSE IF \/ Is(arg, <<"-","W","p",",","-","M","P">>)
             \/ /\ Len(full) > 8
                /\ StartsWith(full, <<"-","W","p",",","-","M">>)
                /\ full[8] = ","
                /\ full[7] \in {"F", "Q", "T"}
                /\ Find(full, ",", 8) = 0
     THEN PushDep(s, arg)
     ELSE PushCpp([s EXCEPT !.config.direct_mode = FALSE], arg)

\* "--serialize-diagnostics <v>"
rule_serialize_diagnostics(s) ==
  IF IsLastArg(s) THEN Fail(s, "bad_compiler_arguments")
  ELSE [s EXCEPT !.args_info.generating_diagnostics = TRUE,
                 !.args_info.output_dia = Rel(s, ArgAt(s, 1).full),
                 !.i = s.i + 1]

\* The options that set the colour of diagnostics.
ColorAlways == {<<"-","f","c","o","l","o","r","-","d","i","a","g","n","o","s","t","i","c","s">>, <<"-","f","d","i","a","g","n","o","s","t","i","c","s","-","c","o","l","o","r">>, <<"-","f","d","i","a","g","n","o","s","t","i","c","s","-","c","o","l","o","r","=","a","l","w","a","y","s">>}

ColorNever == {<<"-","f","n","o","-","c","o","l","o","r","-","d","i","a","g","n","o","s","t","i","c","s">>, <<"-","f","n","o","-","d","i","a","g","n","o","s","t","i","c","s","-","c","o","l","o","r">>, <<"-","f","d","i","a","g","n","o","s","t","i","c","s","-","c","o","l","o","r","=","n","e","v","e","r">>}

ColorAuto == {<<"-","f","d","i","a","g","n","o","s","t","i","c","s","-","c","o","l","o","r","=","a","u","t","o">>}

rule_color(s) ==
  [s EXCEPT !.state.color_diagnostics =
     IF CurArg(s).full \in ColorAlways THEN "always"
     ELSE IF CurArg(s).full \in ColorNever THEN "never"
     ELSE "automatic"]

\* Options that take a path argument, which is rewritten to a relative path.
rule_takes_path(s) ==
  IF IsLastArg(s) THEN Fail(s, "bad_compiler_arguments")
  ELSE LET next == IF Is(ArgAt(s, 1), <<"-","X","c","l","a","n","g">>) /\ s.i + 2 < Len(s.args) THEN 2 ELSE 1
           pch == detect_pch(s, CurArg(s).full, ArgAt(s, next).full, next = 2)
           relpath == ArgFromToken(Rel(s, ArgAt(s, next).full))
           pushed == IF next = 2 THEN <<CurArg(s), ArgAt(s, 1), relpath>>
                     ELSE <<CurArg(s), relpath>>
       IN IF ~pch.ok THEN Fail(pch.s, "bad_compiler_arguments")
          ELSE IF compopt_affects_cpp(CurArg(s).full)
               THEN [pch.s EXCEPT !.state.cpp_args = @ \o pushed, !.i = s.i + next]
          ELSE [pch.s EXCEPT !.state.common_args = @ \o pushed, !.i = s.i + next]

\* An option with a concatenated argument that begins with a slash, for an
\* option that takes a concatenated path.
IsConcatPath(s) ==
  LET full == CurArg(s).full
      slash_pos == Find(full, "/", 0)
      option == SubSeq(full, 1, slash_pos - 1)
  IN /\ full[1] = "-"
     /\ slash_pos # 0
     /\ compopt_takes_concat_arg(option)
     /\ compopt_takes_path(option)

\* A variant of rule_concat_path that passes the token on as it is.
rule_concat_path_verbatim(s) ==
  LET full == CurArg(s).full
      option == SubSeq(full, 1, Find(full, "/", 0) - 1)
  IN IF compopt_affects_cpp(option) THEN PushCpp(s, CurArg(s))
     ELSE PushCommon(s, CurArg(s))

\* The option is rewritten with its path made relative and glued to it again.
rule_concat_path(s) ==
  LET full == CurArg(s).full
      slash_pos == Find(full, "/", 0)
      option == SubSeq(full, 1, slash_pos - 1)
      new_option == ArgFromToken(option \o Rel(s, Substr(full, slash_pos - 1)))
  IN IF compopt_affects_cpp(option) THEN PushCpp(s, new_option)
     ELSE PushCommon(s, new_option)

\* Options that take an argument.
rule_takes_arg(s) ==
  IF IsLastArg(s) THEN Fail(s, "bad_compiler_arguments")
  ELSE IF compopt_affects_cpp(CurArg(s).full)
       THEN [PushCpp(PushCpp(s, CurArg(s)), ArgAt(s, 1)) EXCEPT !.i = s.i + 1]
  ELSE [PushCommon(PushCommon(s, CurArg(s)), ArgAt(s, 1)) EXCEPT !.i = s.i + 1]

\* Other options.
rule_other_option(s) ==
  IF compopt_affects_cpp(CurArg(s).full) \/ compopt_prefix_affects_cpp(CurArg(s).full)
  THEN PushCpp(s, CurArg(s))
  ELSE PushCommon(s, CurArg(s))

\* A variant of rule_input_file in which the last input file wins.
rule_input_file_last_wins(s) ==
  LET full == CurArg(s).full
  IN IF full # <<"/","d","e","v","/","n","u","l","l">> /\ Stat(full) # "regular" THEN PushCommon(s, CurArg(s))
     ELSE IF s.args_info.generating_coverage
          THEN [s EXCEPT !.args_info.input_file = full]
     ELSE [s EXCEPT !.args_info.input_file = Rel(s, full)]

\* A token that is not an option: the input file, unless it is no regular
\* file or an input file was found before.
rule_input_file(s) ==
  LET full == CurArg(s).full
  IN IF full # <<"/","d","e","v","/","n","u","l","l">> /\ Stat(full) # "regular" THEN PushCommon(s, CurArg(s))
     ELSE IF s.args_info.input_file # <<>>
     THEN IF language_for_file(full) # <<>> THEN Fail(s, "multiple_source_files")
          ELSE IF ~s.state.found_c_opt /\ ~s.state.found_dc_opt
               THEN IF Contains(full, <<"c","o","n","f","t","e","s","t",".">>) THEN Fail(s, "autoconf_test")
                    ELSE Fail(s, "called_for_link")
          ELSE Fail(s, "unsupported_source_language")
     ELSE IF s.args_info.generating_coverage
          THEN [s EXCEPT !.args_info.input_file = full]
     ELSE [s EXCEPT !.args_info.input_file = Rel(s, full)]

\* A variant of rule_c that also passes the option on.
rule_c_kept(s) == PushCommon([s EXCEPT !.state.found_c_opt = TRUE], CurArg(s))

\* "-c" is noted and dropped.
rule_c(s) == [s EXCEPT !.state.found_c_opt = TRUE]

\* The rules of process_arg from "-fmodules" on, for the record after the
\* -Xclang prefix was skipped.
process_arg_rest(s) ==
  LET arg == CurArg(s)
      full == arg.full
  IN IF Is(arg, <<"-","f","m","o","d","u","l","e","s">>) /\ fmodules_unsupported(s)
       THEN Fail(s, "could_not_use_modules")
     ELSE IF Is(arg, <<"-","c">>) THEN rule_c(s)
     ELSE IF full \in {<<"-","d","c">>, <<"-","-","d","e","v","i","c","e","-","c">>} /\ s.guessed_compiler = "nvcc"
       THEN [s EXCEPT !.state.found_dc_opt = TRUE]
     ELSE IF Is(arg, <<"-","S">>) THEN [PushCommon(s, arg) EXCEPT !.state.found_S_opt = TRUE]
     ELSE IF arg.key = <<"-","x">> THEN rule_x(s)
     ELSE IF Is(arg, <<"-","o">>) THEN rule_o(s)
     ELSE IF StartsWith(full, <<"-","o">>) /\ s.guessed_compiler # "nvcc" THEN rule_o_concat(s)
     ELSE IF arg.key \in {<<"-","f","d","e","b","u","g","-","p","r","e","f","i","x","-","m","a","p">>, <<"-","f","f","i","l","e","-","p","r","e","f","i","x","-","m","a","p">>} THEN rule_prefix_map(s)
     ELSE IF StartsWith(full, <<"-","g">>) THEN rule_g(s)
     ELSE IF full \in {<<"-","M","D">>, <<"-","M","M","D">>} THEN rule_MD(s)
     ELSE IF arg.key = <<"-","M","F">> THEN rule_MF(s)
     ELSE IF arg.key \in {<<"-","M","Q">>, <<"-","M","T">>} THEN rule_MQ_MT(s)
     ELSE IF full \in {<<"-","f","p","r","o","f","i","l","e","-","a","r","c","s">>, <<"-","f","t","e","s","t","-","c","o","v","e","r","a","g","e">>, <<"-","f","s","t","a","c","k","-","u","s","a","g","e">>,
                       <<"-","-","c","o","v","e","r","a","g","e">>, <<"-","c","o","v","e","r","a","g","e">>}
       THEN rule_coverage(s)
     ELSE IF \/ StartsWith(full, <<"-","f","p","r","o","f","i","l","e","-">>)
             \/ StartsWith(full, <<"-","f","a","u","t","o","-","p","r","o","f","i","l","e">>)
             \/ Is(arg, <<"-","f","b","r","a","n","c","h","-","p","r","o","b","a","b","i","l","i","t","i","e","s">>)
       THEN rule_profiling(s)
     ELSE IF arg.key = <<"-","f","s","a","n","i","t","i","z","e","-","b","l","a","c","k","l","i","s","t">> THEN rule_sanitize_blacklist(s)
     ELSE IF arg.key = <<"-","-","s","y","s","r","o","o","t">> THEN rule_sysroot_eq(s)
     ELSE IF Is(arg, <<"-","-","s","y","s","r","o","o","t">>) THEN rule_sysroot(s)
     ELSE IF Is(arg, <<"-","t","a","r","g","e","t">>) THEN rule_target(s)
     ELSE IF StartsWith(full, <<"-","W","p",",">>) THEN rule_Wp(s)
     ELSE IF Is(arg, <<"-","M","P">>) THEN PushDep(s, arg)
     ELSE IF arg.key = <<"-","f","i","n","p","u","t","-","c","h","a","r","s","e","t">>
       THEN [s EXCEPT !.state.input_charset_option = full]
     ELSE IF Is(arg, <<"-","-","s","e","r","i","a","l","i","z","e","-","d","i","a","g","n","o","s","t","i","c","s">>) THEN rule_serialize_diagnostics(s)
     ELSE IF full \in ColorAlways \cup ColorNever \cup ColorAuto THEN rule_color(s)
     ELSE IF Is(arg, <<"-","f","d","i","r","e","c","t","i","v","e","s","-","o","n","l","y">>)
       THEN [s EXCEPT !.state.found_directives_only = TRUE]
     ELSE IF Is(arg, <<"-","f","r","e","w","r","i","t","e","-","i","n","c","l","u","d","e","s">>)
       THEN [s EXCEPT !.state.found_rewrite_includes = TRUE]
     ELSE IF Is(arg, <<"-","f","n","o","-","p","c","h","-","t","i","m","e","s","t","a","m","p">>)
       THEN PushCommon([s EXCEPT !.args_info.fno_pch_timestamp = TRUE], arg)
     ELSE IF Is(arg, <<"-","f","p","c","h","-","p","r","e","p","r","o","c","e","s","s">>)
       THEN PushCommon([s EXCEPT !.state.found_fpch_preprocess = TRUE], arg)
     ELSE IF "clang_index_store" \in s.config.sloppiness /\ Is(arg, <<"-","i","n","d","e","x","-","s","t","o","r","e","-","p","a","t","h">>)
       THEN [s EXCEPT !.i = s.i + 1]
     ELSE IF compopt_takes_path(full) THEN rule_takes_path(s)
     ELSE IF IsConcatPath(s) THEN rule_concat_path(s)
     ELSE IF compopt_takes_arg(full) THEN rule_takes_arg(s)
     ELSE IF full[1] = "-" THEN rule_other_option(s)
     ELSE rule_input_file(s)

\* The rules of process_arg from "-Xarch_*" to the options that only affect
\* the compilation, for the record after the direct mode rule.
process_arg_comp(s) ==
  IF StartsWith(CurArg(s).full, <<"-","X","a","r","c","h","_">>) THEN Fail(s, "unsupported_compiler_option")
  ELSE IF CurArg(s).key = <<"-","a","r","c","h">> THEN rule_arch(s)
  ELSE LET s1 == IF IsXclangPch(s) THEN rule_xclang(s) ELSE s
       IN IF compopt_affects_comp(CurArg(s1).full) THEN rule_affects_comp(s1)
          ELSE IF compopt_prefix_affects_comp(CurArg(s1).full)
               THEN rule_prefix_affects_comp(s1)
          ELSE process_arg_rest(s1)

\* A variant of rule_too_hard_for_direct_mode that leaves direct mode on.
rule_too_hard_for_direct_mode_ignored(s) == s

\* These are too hard in direct mode: direct mode is disabled and the token is
\* processed further.
rule_too_hard_for_direct_mode(s) ==
  IF s.config.direct_mode /\ compopt_too_hard_for_direct_mode(CurArg(s).full)
  THEN [s EXCEPT !.config.direct_mode = FALSE]
  ELSE s

\* A variant of IsTooHard that only knows the options of the table.
IsTooHardInTable(arg) == compopt_too_hard(arg.full)

\* These are always too hard.
IsTooHard(arg) ==
  \/ compopt_too_hard(arg.full)
  \/ StartsWith(arg.full, <<"-","f","d","u","m","p","-">>)
  \/ StartsWith(arg.full, <<"-","M","J">>)

\* process_arg(ctx, args, args_index, state): the record after the call; the
\* first rule that matches args[i] decides.
process_arg(s) ==
  LET arg == CurArg(s)
  IN IF arg.key = <<"-","-","c","c","a","c","h","e","-","s","k","i","p">> THEN rule_ccache_skip(s)
     ELSE IF Is(arg, <<"-","E">>) THEN Fail(s, "called_for_preprocessing")
     ELSE IF StartsWith(arg.full, <<"@">>) \/ StartsWith(arg.full, <<"-","@">>) THEN rule_atfile(s)
     ELSE IF /\ s.guessed_compiler = "nvcc"
             /\ arg.key \in {<<"-","o","p","t","f">>, <<"-","-","o","p","t","i","o","n","s","-","f","i","l","e">>}
       THEN rule_options_file(s)
     ELSE IF IsTooHard(arg) THEN Fail(s, "unsupported_compiler_option")
     ELSE process_arg_comp(rule_too_hard_for_direct_mode(s))

\* ------------------------------------------------- after the loop of process_args

\* One environment variable: unset, or set to a value.
Unset == [set |-> FALSE, value |-> <<>>]

EnvValue(value) == [set |-> TRUE, value |-> value]

\* handle_dependency_environment_variables(ctx, state)
handle_dependency_environment_variables(s) ==
  LET using_sunpro_dependencies == ~s.env.DEPENDENCIES_OUTPUT.set
      dependencies_env ==
        IF using_sunpro_dependencies THEN s.env.SUNPRO_DEPENDENCIES
        ELSE s.env.DEPENDENCIES_OUTPUT
      dependencies == split_into_strings(dependencies_env.value, " ")
      s1 == [s EXCEPT !.args_info.generating_dependencies = TRUE,
                      !.state.dependency_filename_specified = TRUE]
      s2 == IF dependencies # <<>>
            THEN [s1 EXCEPT !.args_info.output_dep = Rel(s, dependencies[1])]
            ELSE s1
      relpath_both == s2.args_info.output_dep \o <<" ">> \o Rel(s, dependencies[2])
      exported == IF Len(dependencies) > 1 THEN relpath_both ELSE s2.args_info.output_dep
      s3 == IF Len(dependencies) > 1
            THEN [s2 EXCEPT !.args_info.dependency_target_specified = TRUE]
            ELSE [s2 EXCEPT !.state.dependency_implicit_target_specified = TRUE]
  IN IF ~dependencies_env.set THEN s
     ELSE IF using_sunpro_dependencies
          THEN [s3 EXCEPT !.env.SUNPRO_DEPENDENCIES = EnvValue(exported)]
     ELSE [s3 EXCEPT !.env.DEPENDENCIES_OUTPUT = EnvValue(exported)]

\* extension_for_language(language)
extension_for_language(language) ==
  CASE language = <<"c">> -> <<".","c">>
    [] language = <<"c","p","p","-","o","u","t","p","u","t">> -> <<".","i">>
    [] language = <<"c","u">> -> <<".","c","u">>
    [] language = <<"c","-","h","e","a","d","e","r">> -> <<".","h">>
    [] language = <<"a","s","s","e","m","b","l","e","r">> -> <<".","s">>
    [] OTHER -> <<>>

\* A variant of fix_debuginfo_level_3 that leaves run_second_cpp as it is.
fix_debuginfo_level_3_skipped(s) == s

\* Debug info on level 3 forces the second preprocessor run.
fix_debuginfo_level_3(s) ==
  IF s.state.generating_debuginfo_level_3 /\ ~s.config.run_second_cpp
  THEN [s EXCEPT !.config.run_second_cpp = TRUE]
  ELSE s

\* if (args_info.input_file.empty()) return no_input_file
check_input_file(s) ==
  IF s.args_info.input_file = <<>> THEN Fail(s, "no_input_file") ELSE s

\* A precompiled header is used: this needs the "time_macros" sloppiness.
check_precompiled_header_use(s) ==
  IF s.stat # "none" \/ ~(s.state.found_pch \/ s.state.found_fpch_preprocess) THEN s
  ELSE IF "time_macros" \notin s.config.sloppiness
       THEN Fail([s EXCEPT !.args_info.using_precompiled_header = TRUE],
                 "could_not_use_precompiled_header")
  ELSE [s EXCEPT !.args_info.using_precompiled_header = TRUE]

\* The profile path defaults to the working directory.
default_profile_path(s) ==
  IF s.stat # "none" \/ s.args_info.profile_path # <<>> THEN s
  ELSE [s EXCEPT !.args_info.profile_path = apparent_cwd]

\* The language of the call: the explicit one, "none" cleared, or the one of
\* the input file.
fix_language(s) ==
  LET explicit == IF s.state.explicit_language = <<"n","o","n","e">> THEN <<>>
                  ELSE s.state.explicit_language
      file_language == language_for_file(s.args_info.input_file)
      s1 == [s EXCEPT !.state.explicit_language = explicit,
                      !.state.file_language = file_language]
  IN IF s.stat # "none" THEN s
     ELSE IF explicit # <<>>
     THEN IF ~language_is_supported(explicit)
          THEN Fail(s1, "unsupported_source_language")
          ELSE [s1 EXCEPT !.args_info.actual_language = explicit]
     ELSE [s1 EXCEPT !.args_info.actual_language = file_language]

\* The output is a precompiled header: this needs the "pch_defines"
\* sloppiness.
check_precompiled_header_output(s) ==
  LET is_pch == \/ Contains(s.args_info.actual_language, <<"-","h","e","a","d","e","r">>)
                \/ is_precompiled_header(s.args_info.output_obj)
      s1 == [s EXCEPT !.args_info.output_is_precompiled_header = is_pch]
  IN IF s.stat # "none" THEN s
     ELSE IF is_pch /\ "pch_defines" \notin s.config.sloppiness
          THEN Fail(s1, "could_not_use_precompiled_header")
     ELSE s1

\* Without -c, -dc and -S the call is a link, unless it makes a precompiled
\* header: then -c is added.
check_compile_marker(s) ==
  IF \/ s.stat # "none"
     \/ s.state.found_c_opt
     \/ s.state.found_dc_opt
     \/ s.state.found_S_opt
  THEN s
  ELSE IF s.args_info.output_is_precompiled_header
       THEN PushCommon(s, ArgFromToken(<<"-","c">>))
  ELSE IF Contains(s.args_info.input_file, <<"c","o","n","f","t","e","s","t",".">>) THEN Fail(s, "autoconf_test")
  ELSE Fail(s, "called_for_link")

\* A variant of check_actual_language that lets every language pass.
check_actual_language_passed(s) == s

\* if (args_info.actual_language.empty()) return unsupported_source_language
check_actual_language(s) ==
  IF s.stat = "none" /\ s.args_info.actual_language = <<>>
  THEN Fail(s, "unsupported_source_language")
  ELSE s

\* CUDA and precompiled headers force the second preprocessor run; a
\* preprocessed input is noted.
force_second_cpp(s) ==
  LET s1 == IF ~s.config.run_second_cpp /\ s.args_info.actual_language = <<"c","u">>
            THEN [s EXCEPT !.config.run_second_cpp = TRUE]
            ELSE s
      s2 == [s1 EXCEPT !.args_info.direct_i_file =
                          language_is_preprocessed(s.args_info.actual_language)]
  IN IF s.stat # "none" THEN s
     ELSE IF s.args_info.output_is_precompiled_header /\ ~s1.config.run_second_cpp
          THEN [s2 EXCEPT !.config.run_second_cpp = TRUE]
     ELSE s2

\* The extension of the preprocessed file defaults to the one of the language.
default_cpp_extension(s) ==
  IF s.stat # "none" \/ s.config.cpp_extension # <<>> THEN s
  ELSE [s EXCEPT !.config.cpp_extension =
           Substr(extension_for_language(
                    p_language_for_language(s.args_info.actual_language)), 1)]

\* if (args_info.output_obj == "-") return output_to_stdout
check_output_to_stdout(s) ==
  IF s.stat = "none" /\ s.args_info.output_obj = <<"-">>
  THEN Fail(s, "output_to_stdout")
  ELSE s

\* The checks of process_args from the end of the loop to "-o -", in order;
\* the first one that fails sets the Statistic and the later ones pass it on.
finish_checks(s) ==
  check_output_to_stdout(
    default_cpp_extension(
      force_second_cpp(
        check_actual_language(
          check_compile_marker(
            check_precompiled_header_output(
              fix_language(
                default_profile_path(
                  check_precompiled_header_use(
                    check_input_file(
                      handle_dependency_environment_variables(
                        fix_debuginfo_level_3(s))))))))))))

\* The output file defaults to the input file with the extension of what is
\* made.
default_output_obj(s) ==
  IF s.stat # "none" \/ s.args_info.output_obj # <<>> THEN s
  ELSE IF s.args_info.output_is_precompiled_header
       THEN [s EXCEPT !.args_info.output_obj = s.args_info.input_file \o <<".","g","c","h">>]
  ELSE [s EXCEPT !.args_info.output_obj =
           change_extension(base_name(s.args_info.input_file),
                            IF s.state.found_S_opt THEN <<".","s">> ELSE <<".","o">>)]

\* With -gsplit-dwarf the object file name needs an extension; the .dwo file
\* is named after it.
split_dwarf_output(s) ==
  LET obj == s.args_info.output_obj
      pos == RFind(obj, ".")
  IN IF s.stat # "none" \/ ~s.args_info.seen_split_dwarf THEN s
     ELSE IF pos = 0 \/ pos = Len(obj) THEN Fail(s, "bad_compiler_arguments")
     ELSE [s EXCEPT !.args_info.output_dwo = change_extension(obj, <<".","d","w","o">>)]

\* The output file is a regular file, if it exists, in a directory that exists.
check_output_file(s) ==
  LET obj == s.args_info.output_obj
  IN IF s.stat # "none" THEN s
     ELSE IF obj # <<"/","d","e","v","/","n","u","l","l">> /\ Stat(obj) \notin {"none", "regular"}
          THEN Fail(s, "bad_output_file")
     ELSE IF Stat(dir_name(obj)) # "directory" THEN Fail(s, "bad_output_file")
     ELSE s

\* The output file of the call and the checks on it.
finish_output(s) == check_output_file(split_dwarf_output(default_output_obj(s)))

\* add_depend_mode_extra_original_args(ctx, arg)
add_depend_mode_extra_original_args(s, arg) ==
  IF s.config.depend_mode
  THEN [s EXCEPT !.args_info.depend_extra_args = Append(@, arg)]
  ELSE s

\* The options that are only passed to the preprocessor: -finput-charset,
\* -fpch-preprocess and -x.
add_cpp_only_options(s) ==
  LET s1 == IF s.state.input_charset_option # <<>>
            THEN PushCpp(s, ArgFromToken(s.state.input_charset_option))
            ELSE s
      s2 == IF s1.state.found_pch THEN PushCpp(s1, ArgFromToken(<<"-","f","p","c","h","-","p","r","e","p","r","o","c","e","s","s">>))
            ELSE s1
  IN IF s2.state.explicit_language # <<>>
     THEN PushCpp(PushCpp(s2, ArgFromToken(<<"-","x">>)),
                  ArgFromToken(s2.state.explicit_language))
     ELSE s2

\* The colour option forced on the compiler, whose output is redirected.
add_color_options(s) ==
  LET strip == IF s.state.color_diagnostics # "automatic"
               THEN s.state.color_diagnostics = "never"
               ELSE ~s.color_output_possible
      s1 == [s EXCEPT !.args_info.strip_diagnostics_colors = strip]
      option == IF s.guessed_compiler = "clang" THEN <<"-","f","c","o","l","o","r","-","d","i","a","g","n","o","s","t","i","c","s">>
                ELSE <<"-","f","d","i","a","g","n","o","s","t","i","c","s","-","c","o","l","o","r">>
      s2 == IF ~s1.config.run_second_cpp THEN PushCpp(s1, ArgFromToken(option)) ELSE s1
      s3 == add_depend_mode_extra_original_args(
              PushCompilerOnly(s2, ArgFromToken(option)), option)
  IN IF s.guessed_compiler = "clang"
     THEN IF s.args_info.actual_language # <<"a","s","s","e","m","b","l","e","r">> THEN s3 ELSE s1
     ELSE IF s.guessed_compiler = "gcc" THEN s3
     ELSE [s1 EXCEPT !.args_info.strip_diagnostics_colors = FALSE]

\* A variant of add_default_MF that adds -MF whatever run_second_cpp is.
add_default_MF_always(s) ==
  LET default_depfile_name == change_extension(s.args_info.output_obj, <<".","d">>)
      s1 == [s EXCEPT !.args_info.output_dep = Rel(s, default_depfile_name)]
  IN IF s.state.dependency_filename_specified THEN s
     ELSE PushDep(PushDep(s1, ArgFromToken(<<"-","M","F">>)), ArgFromToken(default_depfile_name))

\* The default dependency file: -MF <output_obj with the extension .d>, added
\* to dep_args when the preprocessed source is compiled.
add_default_MF(s) ==
  LET default_depfile_name == change_extension(s.args_info.output_obj, <<".","d">>)
      s1 == [s EXCEPT !.args_info.output_dep = Rel(s, default_depfile_name)]
  IN IF s.state.dependency_filename_specified THEN s
     ELSE IF ~s.config.run_second_cpp
          THEN PushDep(PushDep(s1, ArgFromToken(<<"-","M","F">>)), ArgFromToken(default_depfile_name))
     ELSE s1

\* A variant of add_default_MQ that overlooks the target the environment
\* variables imply.
add_default_MQ_no_implicit(s) ==
  IF ~s.args_info.dependency_target_specified /\ ~s.config.run_second_cpp
  THEN PushDep(PushDep(s, ArgFromToken(<<"-","M","Q">>)), ArgFromToken(s.args_info.output_obj))
  ELSE s

\* The default dependency target: -MQ <output_obj>.
add_default_MQ(s) ==
  IF /\ ~s.args_info.dependency_target_specified
     /\ ~s.state.dependency_implicit_target_specified
     /\ ~s.config.run_second_cpp
  THEN PushDep(PushDep(s, ArgFromToken(<<"-","M","Q">>)), ArgFromToken(s.args_info.output_obj))
  ELSE s

\* if (args_info.generating_dependencies) { ... }
add_dependency_options(s) ==
  IF s.args_info.generating_dependencies THEN add_default_MQ(add_default_MF(s)) ELSE s

\* The coverage and stack usage files of the call.
add_coverage_outputs(s) ==
  LET s1 == IF s.args_info.generating_coverage
            THEN [s EXCEPT !.args_info.output_cov =
                     Rel(s, change_extension(s.args_info.output_obj, <<".","g","c","n","o">>))]
            ELSE s
  IN IF s1.args_info.generating_stackusage
     THEN [s1 EXCEPT !.args_info.output_su =
              Rel(s, change_extension(s.args_info.output_obj, <<".","s","u">>))]
     ELSE s1

\* The part of process_args that completes the four vectors of state.
finish_vectors(s) ==
  add_coverage_outputs(add_dependency_options(add_color_options(add_cpp_only_options(s))))

\* cpp_args at the end of process_args: with -fdirectives-only or
\* -frewrite-includes and no second preprocessor run, the option is passed on.
final_cpp_args(s) ==
  IF s.config.run_second_cpp THEN s.state.cpp_args
  ELSE s.state.cpp_args
         \o (IF s.state.found_directives_only
             THEN <<ArgFromToken(<<"-","f","d","i","r","e","c","t","i","v","e","s","-","o","n","l","y">>)>> ELSE <<>>)
         \o (IF s.state.found_rewrite_includes
             THEN <<ArgFromToken(<<"-","f","r","e","w","r","i","t","e","-","i","n","c","l","u","d","e","s">>)>> ELSE <<>>)

\* A variant of compiler_cpp_part that passes cpp_args on whatever
\* run_second_cpp is.
compiler_cpp_part_always(s) == s.state.cpp_args

\* What compiler_args gets between compiler_only_args and the -c marker.
compiler_cpp_part(s) ==
  IF s.config.run_second_cpp THEN s.state.cpp_args
  ELSE IF s.state.found_directives_only \/ s.state.found_rewrite_includes
  THEN s.state.cpp_args
         \o (IF s.state.found_directives_only
             THEN <<ArgFromToken(<<"-","f","p","r","e","p","r","o","c","e","s","s","e","d">>), ArgFromToken(<<"-","f","d","i","r","e","c","t","i","v","e","s","-","o","n","l","y">>)>>
             ELSE <<>>)
         \o (IF s.state.found_rewrite_includes
             THEN <<ArgFromToken(<<"-","x">>), ArgFromToken(s.args_info.actual_language)>>
             ELSE <<>>)
  ELSE IF s.state.explicit_language # <<>>
  THEN <<ArgFromToken(<<"-","x">>),
         ArgFromToken(p_language_for_language(s.state.explicit_language))>>
  ELSE <<>>

\* The -c and -dc markers of compiler_args.
compile_markers(s) ==
  (IF s.state.found_c_opt THEN <<ArgFromToken(<<"-","c">>)>> ELSE <<>>)
    \o (IF s.state.found_dc_opt THEN <<ArgFromToken(<<"-","d","c">>)>> ELSE <<>>)

\* "-arch <v>" for each architecture, as two arguments.
RECURSIVE arch_options(_)
arch_options(arch_args) ==
  IF arch_args = <<>> THEN <<>>
  ELSE <<ArgFromToken(<<"-","a","r","c","h">>), ArgFromToken(Head(arch_args))>>
         \o arch_options(Tail(arch_args))

\* A variant of dep_args_to_compiler with the two sides swapped.
dep_args_to_preprocessor(s) == ~s.config.run_second_cpp

\* Where dep_args go: to the compiler if the second preprocessor run is made.
dep_args_to_compiler(s) == s.config.run_second_cpp

\* A variant of compiler_args_of that puts the -c and -dc markers last.
compiler_args_marker_last(s) ==
  s.state.common_args
    \o s.state.compiler_only_args
    \o compiler_cpp_part(s)
    \o arch_options(s.args_info.arch_args)
    \o (IF dep_args_to_compiler(s) THEN s.state.dep_args ELSE <<>>)
    \o compile_markers(s)

\* compiler_args of the result.
compiler_args_of(s) ==
  s.state.common_args
    \o s.state.compiler_only_args
    \o compiler_cpp_part(s)
    \o compile_markers(s)
    \o arch_options(s.args_info.arch_args)
    \o (IF dep_args_to_compiler(s) THEN s.state.dep_args ELSE <<>>)

\* A variant of preprocessor_args_of with cpp_args before common_args.
preprocessor_args_cpp_first(s) ==
  final_cpp_args(s)
    \o s.state.common_args
    \o (IF dep_args_to_compiler(s) THEN <<>> ELSE s.state.dep_args)

\* preprocessor_args of the result.
preprocessor_args_of(s) ==
  s.state.common_args
    \o final_cpp_args(s)
    \o (IF dep_args_to_compiler(s) THEN <<>> ELSE s.state.dep_args)

\* extra_args_to_hash of the result.
extra_args_to_hash_of(s) ==
  s.state.compiler_only_args
    \o (IF dep_args_to_compiler(s) THEN s.state.dep_args ELSE <<>>)

\* The result of a call that has none yet.
NoResult ==
  [preprocessor_args |-> <<>>, extra_args_to_hash |-> <<>>, compiler_args |-> <<>>]

\* The end of process_args: the final vectors of state and the three vectors
\* of the result.
assemble(s) ==
  [s EXCEPT !.state.cpp_args = final_cpp_args(s),
            !.result = [preprocessor_args |-> preprocessor_args_of(s),
                        extra_args_to_hash |-> extra_args_to_hash_of(s),
                        compiler_args |-> compiler_args_of(s)],
            !.stat = "ok"]

\* The vectors and the result of a call that passed the checks.
finish_result(s) == IF s.stat # "none" THEN s ELSE assemble(finish_vectors(s))

\* process_args after the loop: the checks, the output file, the vectors and
\* the result, ended by the first Statistic.
finish(s) == finish_result(finish_output(finish_checks(s)))

\* ------------------------------------------------------------ the state machine

VARIABLES
  orig_args,              \* ctx.orig_args, the command line as Args
  args,                   \* the copy of orig_args that process_args loops over
  i,                      \* the loop index of process_args (0-based)
  pc,                     \* "start", "loop" or "done": where process_args is
  state,                  \* the ArgumentProcessingState of the call
  args_info,              \* ctx.args_info
  config,                 \* ctx.config
  guessed_compiler,       \* ctx.guessed_compiler
  included_pch_file,      \* ctx.included_pch_file
  env,                    \* DEPENDENCIES_OUTPUT and SUNPRO_DEPENDENCIES
  color_output_possible,  \* what color_output_possible() returns
  stat,                   \* "none", "ok" or the Statistic process_args returns
  result,                 \* the three vectors process_args returns
  dispatched              \* history: the args[i] process_arg was called on

vars ==
  <<orig_args, args, i, pc, state, args_info, config, guessed_compiler,
    included_pch_file, env, color_output_possible, stat, result, dispatched>>

\* The longest command line tail drawn from a pool.
MaxOpts == 2

\* The number of process_arg calls after which the model stops the loop.
MaxSteps == 10

\* struct ArgumentProcessingState, as constructed.
InitialState ==
  [found_c_opt |-> FALSE, found_dc_opt |-> FALSE, found_S_opt |-> FALSE,
   found_pch |-> FALSE, found_fpch_preprocess |-> FALSE,
   color_diagnostics |-> "automatic",
   found_directives_only |-> FALSE, found_rewrite_includes |-> FALSE,
   explicit_language |-> <<>>, file_language |-> <<>>, input_charset_option |-> <<>>,
   dependency_filename_specified |-> FALSE,
   dependency_implicit_target_specified |-> FALSE,
   generating_debuginfo_level_3 |-> FALSE,
   common_args |-> <<>>, cpp_args |-> <<>>, dep_args |-> <<>>,
   compiler_only_args |-> <<>>]

\* ArgsInfo, as constructed.
InitialArgsInfo ==
  [input_file |-> <<>>, output_obj |-> <<>>, output_dep |-> <<>>, output_dwo |-> <<>>,
   output_cov |-> <<>>, output_su |-> <<>>, output_dia |-> <<>>,
   actual_language |-> <<>>, arch_args |-> <<>>, debug_prefix_maps |-> <<>>,
   sanitize_blacklists |-> <<>>, depend_extra_args |-> <<>>,
   generating_dependencies |-> FALSE, generating_debuginfo |-> FALSE,
   generating_coverage |-> FALSE, generating_stackusage |-> FALSE,
   generating_diagnostics |-> FALSE, seen_MD_MMD |-> FALSE, seen_split_dwarf |-> FALSE,
   profile_arcs |-> FALSE, profile_generate |-> FALSE, profile_use |-> FALSE,
   profile_path |-> <<>>, using_precompiled_header |-> FALSE,
   fno_pch_timestamp |-> FALSE, output_is_precompiled_header |-> FALSE,
   strip_diagnostics_colors |-> FALSE, direct_i_file |-> FALSE,
   dependency_target_specified |-> FALSE]

\* A Config: the settings process_args reads and writes.
MakeConfig(run_second_cpp, direct_mode, depend_mode, sloppiness, base_dir) ==
  [run_second_cpp |-> run_second_cpp, direct_mode |-> direct_mode,
   depend_mode |-> depend_mode, sloppiness |-> sloppiness, base_dir |-> base_dir,
   cpp_extension |-> <<>>]

\* The environment a call can start in.
MakeEnv(dependencies_output, sunpro_dependencies) ==
  [DEPENDENCIES_OUTPUT |-> dependencies_output,
   SUNPRO_DEPENDENCIES |-> sunpro_dependencies]

NoEnv == MakeEnv(Unset, Unset)

\* All the ways to merge the sequences a and b, keeping the order of each.
RECURSIVE Merges(_, _)
Merges(a, b) ==
  IF a = <<>> THEN {b}
  ELSE IF b = <<>> THEN {a}
  ELSE {<<Head(a)>> \o m : m \in Merges(Tail(a), b)}
         \cup {<<Head(b)>> \o m : m \in Merges(a, Tail(b))}

\* The sequences over pool of length at most n.
SeqsUpTo(pool, n) == UNION {[1..k -> pool] : k \in 0..n}

\* The command lines "cc" followed by a merge of frame with at most n tokens
\* of pool.
CmdLines(frame, pool, n) ==
  {<<<<"c","c">>>> \o m : m \in UNION {Merges(frame, free) : free \in SeqsUpTo(pool, n)}}

\* Args::from_argv: each token as an Arg.
from_argv(argv) == [k \in 1..Len(argv) |-> ArgFromToken(argv[k])]

\* The state in which process_args(ctx) is called on the command line argv.
InitWith(argv, cfg, compiler, environment, tty) ==
  /\ orig_args = from_argv(argv)
  /\ args = <<>>
  /\ i = 0
  /\ pc = "start"
  /\ state = InitialState
  /\ args_info = InitialArgsInfo
  /\ config = cfg
  /\ guessed_compiler = compiler
  /\ included_pch_file = <<>>
  /\ env = environment
  /\ color_output_possible = tty
  /\ stat = "none"
  /\ result = NoResult
  /\ dispatched = <<>>

\* Everything process_arg and the end of process_args read and write.
Cur ==
  [args |-> args, i |-> i, state |-> state, args_info |-> args_info, config |-> config,
   guessed_compiler |-> guessed_compiler, included_pch_file |-> included_pch_file,
   env |-> env, color_output_possible |-> color_output_possible,
   stat |-> stat, result |-> result]

\* The variables take the values of the record s.
Becomes(s) ==
  /\ args' = s.args
  /\ state' = s.state
  /\ args_info' = s.args_info
  /\ config' = s.config
  /\ included_pch_file' = s.included_pch_file
  /\ env' = s.env
  /\ stat' = s.stat
  /\ result' = s.result

\* The parameters process_args registers, in order.
registered_params ==
  << [param |-> <<"-","-","c","c","a","c","h","e","-","s","k","i","p">>, splits |-> {"space"}],
     [param |-> <<"-","o","p","t","f">>, splits |-> {"space"}],
     [param |-> <<"-","-","o","p","t","i","o","n","s","-","f","i","l","e">>, splits |-> {"space"}],
     [param |-> <<"-","a","r","c","h">>, splits |-> {"space"}],
     [param |-> <<"-","x">>, splits |-> {"space", "written_together"}],
     [param |-> <<"-","M","F">>, splits |-> {"space", "equal_sign", "written_together"}],
     [param |-> <<"-","M","Q">>, splits |-> {"space", "written_together"}],
     [param |-> <<"-","M","T">>, splits |-> {"space", "written_together"}] >>

\* add_param for each of the first n registered parameters, in order.
RECURSIVE add_params(_, _)
add_params(v, n) ==
  IF n = 0 THEN v
  ELSE add_param(add_params(v, n - 1), registered_params[n].param,
                 registered_params[n].splits)

\* process_args up to the loop: args is the copy of orig_args with the
\* registered parameters fused, and common_args starts with the compiler.
Start ==
  /\ pc = "start"
  /\ LET fused == add_params(orig_args, Len(registered_params))
     IN /\ args' = fused
        /\ state' = [state EXCEPT !.common_args = <<fused[1]>>]
  /\ i' = 1
  /\ pc' = "loop"
  /\ UNCHANGED <<orig_args, args_info, config, guessed_compiler, included_pch_file,
                 env, color_output_possible, stat, result, dispatched>>

\* One iteration of the loop: process_arg on args[i]; a Statistic ends the
\* call, otherwise the loop goes on after the index process_arg leaves.
ProcessArg ==
  /\ pc = "loop"
  /\ i < Len(args)
  /\ Len(dispatched) < MaxSteps
  /\ LET s == process_arg(Cur)
     IN /\ Becomes(s)
        /\ i' = s.i + 1
        /\ pc' = IF s.stat # "none" THEN "done" ELSE "loop"
  /\ dispatched' = Append(dispatched, args[i + 1])
  /\ UNCHANGED <<orig_args, guessed_compiler, color_output_possible>>

\* The end of the loop: the checks and fixups after it and the result.
Finish ==
  /\ pc = "loop"
  /\ i >= Len(args)
  /\ Becomes(finish(Cur))
  /\ pc' = "done"
  /\ UNCHANGED <<orig_args, i, guessed_compiler, color_output_possible, dispatched>>

Next == Start \/ ProcessArg \/ Finish


\* ------------------------------------------------ process_args as a function

\* The loop of process_args on the record s and what follows it: process_arg
\* on args[i] until a Statistic is returned or the end of args is reached,
\* then the end of process_args; at most fuel calls of process_arg.
RECURSIVE run_loop(_, _)
run_loop(s, fuel) ==
  IF s.stat # "none" \/ fuel = 0 THEN s
  ELSE IF s.i >= Len(s.args) THEN finish(s)
  ELSE LET r == process_arg(s)
       IN run_loop([r EXCEPT !.i = r.i + 1], fuel - 1)

\* process_args(ctx) on the command line argv: the record it ends with.
process_args(argv, cfg, compiler, environment, tty) ==
  LET fused == add_params(from_argv(argv), Len(registered_params))
  IN run_loop([args |-> fused, i |-> 1,
               state |-> [InitialState EXCEPT !.common_args = <<fused[1]>>],
               args_info |-> InitialArgsInfo, config |-> cfg,
               guessed_compiler |-> compiler, included_pch_file |-> <<>>,
               env |-> environment, color_output_possible |-> tty,
               stat |-> "none", result |-> NoResult],
              MaxSteps)
\* ---------------------------------------------------------- the specifications

\* A successful call needs -c and an input file.
CompileFrame == <<<<"-","c">>, <<"a",".","c">>>>

\* The dependency options, in every gluing, and a few values for them.
DepPool ==
  {<<"-","M","D">>, <<"-","M","M","D">>, <<"-","M","P">>, <<"-","M","F">>, <<"/","w","/","x",".","d">>, <<"-","M","F","/","w","/","x",".","d">>, <<"-","M","F","=","/","w","/","x",".","d">>, <<"-","M","T">>, <<"t">>,
   <<"-","M","T","t">>, <<"-","M","Q","t">>, <<"-","W","p",",","-","M","D",",","w">>, <<"-","W","p",",","-","M","F",",","w">>, <<"-","W","p",",","-","M","P">>}

\* Dependency options whose string another option can also bring along.
DepDupPool == {<<"-","M","D">>, <<"-","X","l","i","n","k","e","r">>, <<"-","M","F","=","/","w","/","x",".","d">>}

\* Tokens added to a command line that has -MD and a space-separated -MF.
DepExtraPool == {<<"-","M","P">>, <<"-","M","T","t">>, <<"-","o","/","w","/","b",".","o">>}

DepCmdLines ==
  CmdLines(CompileFrame, DepPool, MaxOpts)
    \cup CmdLines(CompileFrame, DepDupPool, MaxOpts + 1)
    \cup CmdLines(<<<<"-","M","D">>, <<"-","M","F">>, <<"/","w","/","x",".","d">>, <<"-","c">>, <<"a",".","c">>>>, DepExtraPool, MaxOpts - 1)

\* With and without the second preprocessor run; the base directory is "/".
DepSetups == {MakeConfig(r, TRUE, FALSE, {}, <<"/">>) : r \in BOOLEAN}

InitDep ==
  \E argv \in DepCmdLines, cfg \in DepSetups :
    InitWith(argv, cfg, "unknown", NoEnv, FALSE)

\* Calls with dependency options.
SpecDep == InitDep /\ [][Next]_vars

\* Options for the preprocessor, for the compiler, and the ones that change
\* what is passed on.
CppPool ==
  {<<"-","D","X">>, <<"-","I","/","w","/","i">>, <<"-","W","e","r","r","o","r">>, <<"-","X","l","i","n","k","e","r">>, <<"-","W","a",",","x">>, <<"-","f","d","i","r","e","c","t","i","v","e","s","-","o","n","l","y">>,
   <<"-","f","r","e","w","r","i","t","e","-","i","n","c","l","u","d","e","s">>, <<"-","x","c">>, <<"-","M","D">>, <<"-","S">>, <<"-","a","r","c","h">>, <<"i","3","8","6">>}

\* Options whose string can be given twice, in two roles.
CppDupPool == {<<"-","X","l","i","n","k","e","r">>, <<"-","D","X">>, <<"-","W","e","r","r","o","r">>}

\* The markers, on a command line that has only the input file.
MarkerPool == {<<"-","c">>, <<"-","S">>, <<"-","d","c">>, <<"-","M","D">>}

CppCmdLines ==
  CmdLines(CompileFrame, CppPool, MaxOpts)
    \cup CmdLines(CompileFrame, CppDupPool, MaxOpts + 1)
    \cup CmdLines(<<<<"a",".","c">>>>, MarkerPool, MaxOpts + 1)

InitCpp ==
  \E argv \in CppCmdLines, r \in BOOLEAN, compiler \in {"gcc", "nvcc"} :
    InitWith(argv, MakeConfig(r, TRUE, FALSE, {}, <<"/">>), compiler, NoEnv, FALSE)

\* Calls with options for the preprocessor and for the compiler.
SpecCpp == InitCpp /\ [][Next]_vars

\* Input files, markers and options that end the call.
FilePool == {<<"-","c">>, <<"a",".","c">>, <<"b",".","c">>, <<"l",".","o">>, <<"-","E">>, <<"-","M">>, <<"-","M","D">>}

\* One option for each kind of rule of process_arg.
RulePool ==
  {<<"-","D","X">>, <<"-","W","e","r","r","o","r">>, <<"-","g","3">>, <<"-","M","D">>, <<"-","f","p","r","o","f","i","l","e","-","g","e","n","e","r","a","t","e">>, <<"-","x","c">>, <<"-","o">>, <<"b",".","o">>,
   <<"-","I","/","w","/","i">>, <<"-","f","d","u","m","p","-","x">>, <<"-","M","J","x">>, <<"@","r","f">>}

AllCmdLines ==
  CmdLines(<<>>, FilePool, MaxOpts + 2) \cup CmdLines(CompileFrame, RulePool, MaxOpts)

Init ==
  \E argv \in AllCmdLines, r \in BOOLEAN :
    InitWith(argv, MakeConfig(r, TRUE, FALSE, {}, <<"/">>), "unknown", NoEnv, FALSE)

\* Calls on any command line.
Spec == Init /\ [][Next]_vars

\* Dependency targets in every form, and -g3, which forces the second
\* preprocessor run.
TargetPool == {<<"-","M","T">>, <<"t">>, <<"-","M","T","t">>, <<"-","M","Q">>, <<"-","M","Q","t">>, <<"-","W","p",",","-","M","T",",","t">>, <<"-","g","3">>}

\* Tokens added to a command line without -MD.
TargetExtraPool == {<<"-","M","T","t">>, <<"-","g","3">>}

TargetCmdLines ==
  CmdLines(<<<<"-","M","D">>, <<"-","c">>, <<"a",".","c">>>>, TargetPool, MaxOpts)
    \cup CmdLines(CompileFrame, TargetExtraPool, MaxOpts - 1)

\* No dependency variable, DEPENDENCIES_OUTPUT in the "file" form and
\* SUNPRO_DEPENDENCIES in the "file target" form.
TargetEnvs ==
  {NoEnv, MakeEnv(EnvValue(<<"/","w","/","x",".","d">>), Unset), MakeEnv(Unset, EnvValue(<<"/","w","/","x",".","d"," ","t">>))}

InitTarget ==
  \E argv \in TargetCmdLines, r \in BOOLEAN, environment \in TargetEnvs :
    InitWith(argv, MakeConfig(r, TRUE, FALSE, {}, <<"/">>), "unknown", environment, FALSE)

\* Calls with dependency targets.
SpecTarget == InitTarget /\ [][Next]_vars

\* Options with a path, glued and with a space, for the preprocessor (-I) and
\* for both runs (-B, --sysroot); -Xclang for the two-hop form.
PathPool ==
  {<<"-","-","s","y","s","r","o","o","t","=","/","w","/","f","o","o","/","b","a","r">>, <<"-","-","s","y","s","r","o","o","t">>, <<"/","w","/","f","o","o","/","b","a","r">>, <<"-","I">>, <<"-","I","/","w","/","f","o","o","/","b","a","r">>,
   <<"-","B">>, <<"-","B","/","w","/","f","o","o","/","b","a","r">>, <<"-","X","c","l","a","n","g">>, <<"-","I","f","o","o","/","b","a","r">>}

PathCmdLines ==
  CmdLines(CompileFrame, PathPool, MaxOpts)
    \cup CmdLines(<<<<"-","-","s","y","s","r","o","o","t">>, <<"/","w","/","f","o","o","/","b","a","r">>, <<"-","c">>, <<"a",".","c">>>>, PathPool, MaxOpts - 1)
    \cup CmdLines(<<<<"-","B">>, <<"/","w","/","f","o","o","/","b","a","r">>, <<"-","c">>, <<"a",".","c">>>>, PathPool, MaxOpts - 1)

\* With the root as the base directory and without a base directory.
InitPath ==
  \E argv \in PathCmdLines, base_dir \in {<<"/">>, <<>>} :
    InitWith(argv, MakeConfig(FALSE, TRUE, FALSE, {}, base_dir), "unknown", NoEnv, FALSE)

\* Calls with options that take a path.
SpecPath == InitPath /\ [][Next]_vars

\* The profiling options: generate and use, with and without a value; d is a
\* directory of the working directory and n is none.
ProfilePool ==
  {<<"-","f","p","r","o","f","i","l","e","-","g","e","n","e","r","a","t","e">>, <<"-","f","p","r","o","f","i","l","e","-","g","e","n","e","r","a","t","e","=","d">>, <<"-","f","p","r","o","f","i","l","e","-","g","e","n","e","r","a","t","e","=","n">>,
   <<"-","f","p","r","o","f","i","l","e","-","i","n","s","t","r","-","g","e","n","e","r","a","t","e">>, <<"-","f","p","r","o","f","i","l","e","-","u","s","e">>, <<"-","f","p","r","o","f","i","l","e","-","u","s","e","=","d">>,
   <<"-","f","p","r","o","f","i","l","e","-","i","n","s","t","r","-","u","s","e">>, <<"-","f","p","r","o","f","i","l","e","-","s","a","m","p","l","e","-","u","s","e","=","d">>, <<"-","f","b","r","a","n","c","h","-","p","r","o","b","a","b","i","l","i","t","i","e","s">>,
   <<"-","f","a","u","t","o","-","p","r","o","f","i","l","e">>, <<"-","f","a","u","t","o","-","p","r","o","f","i","l","e","=","d">>, <<"-","f","p","r","o","f","i","l","e","-","d","i","r","=","d">>, <<"-","f","p","r","o","f","i","l","e","-","c","o","r","r","e","c","t","i","o","n">>}

ProfileCmdLines == CmdLines(CompileFrame, ProfilePool, MaxOpts)

InitProfile ==
  \E argv \in ProfileCmdLines, compiler \in {"gcc", "clang"} :
    InitWith(argv, MakeConfig(FALSE, TRUE, FALSE, {}, <<"/">>), compiler, NoEnv, FALSE)

\* Calls with profiling options.
SpecProfile == InitProfile /\ [][Next]_vars

\* Options that take the next token as their argument, and one argument.
MissingPool ==
  {<<"-","o">>, <<"-","-","s","y","s","r","o","o","t">>, <<"-","t","a","r","g","e","t">>, <<"-","-","s","e","r","i","a","l","i","z","e","-","d","i","a","g","n","o","s","t","i","c","s">>, <<"-","-","c","c","a","c","h","e","-","s","k","i","p">>,
   <<"-","i","n","d","e","x","-","s","t","o","r","e","-","p","a","t","h">>, <<"-","I">>, <<"-","i","n","c","l","u","d","e">>, <<"-","-","p","a","r","a","m">>, <<"-","X","l","i","n","k","e","r">>, <<"v">>}

MissingCmdLines == CmdLines(CompileFrame, MissingPool, MaxOpts)

\* With and without the "clang_index_store" sloppiness.
InitMissing ==
  \E argv \in MissingCmdLines, sloppiness \in {{}, {"clang_index_store"}} :
    InitWith(argv, MakeConfig(FALSE, TRUE, FALSE, sloppiness, <<"/">>),
             "unknown", NoEnv, FALSE)

\* Calls with options whose argument may be missing.
SpecMissing == InitMissing /\ [][Next]_vars

\* Options that are too hard for the direct mode, -Wp options the code knows
\* and does not know, and -fmodules, which needs the direct mode.
DirectPool ==
  {<<"-","X","p","r","e","p","r","o","c","e","s","s","o","r">>, <<"-","W","p",",","-","x">>, <<"-","W","p",",","-","M","D",",","a",",","b">>, <<"-","W","p",",","-","M","D",",","w">>, <<"-","W","p",",","-","D","X">>, <<"-","f","m","o","d","u","l","e","s">>, <<"-","D","X">>}

DirectCmdLines == CmdLines(CompileFrame, DirectPool, MaxOpts)

\* Direct depend mode with the "modules" sloppiness.
InitDirect ==
  \E argv \in DirectCmdLines, r \in BOOLEAN :
    InitWith(argv, MakeConfig(r, TRUE, TRUE, {"modules"}, <<"/">>), "unknown", NoEnv, FALSE)

\* Calls in direct mode.
SpecDirect == InitDirect /\ [][Next]_vars

\* The registered parameters in every gluing, tokens with one and with two
\* '=', and tokens that --ccache-skip can be followed by.
FusePool ==
  {<<"-","-","c","c","a","c","h","e","-","s","k","i","p">>, <<"-","E">>, <<"b",".","c">>, <<"-","M","F">>, <<"x",".","d">>, <<"-","M","F","=","x",".","d">>, <<"-","x">>, <<"c">>, <<"-","x","c">>,
   <<"-","M","T","t">>, <<"-","a","r","c","h">>, <<"-","f","d","e","b","u","g","-","p","r","e","f","i","x","-","m","a","p","=","/","o","=","/","n">>}

FuseCmdLines == CmdLines(CompileFrame, FusePool, MaxOpts)

InitFuse ==
  \E argv \in FuseCmdLines :
    InitWith(argv, MakeConfig(FALSE, TRUE, FALSE, {}, <<"/">>), "unknown", NoEnv, FALSE)

\* Calls on command lines with tokens to split and to fuse.
SpecFuse == InitFuse /\ [][Next]_vars

\* The -g options: levels, formats, -gsplit-dwarf, -gz and -gdwarf-3, which
\* ends in '3' without being a level, and an option for dep_args.
DebugPool ==
  {<<"-","g">>, <<"-","g","1">>, <<"-","g","3">>, <<"-","g","g","d","b","3">>, <<"-","g","0">>, <<"-","g","s","p","l","i","t","-","d","w","a","r","f">>, <<"-","g","d","w","a","r","f","-","3">>, <<"-","g","z">>, <<"-","M","D">>}

DebugCmdLines == CmdLines(CompileFrame, DebugPool, MaxOpts)

InitDebug ==
  \E argv \in DebugCmdLines, r \in BOOLEAN :
    InitWith(argv, MakeConfig(r, TRUE, FALSE, {}, <<"/">>), "unknown", NoEnv, FALSE)

\* Calls with debug options.
SpecDebug == InitDebug /\ [][Next]_vars

\* ------------------------------------------------------------------ the claims

\* process_args returned its three vectors.
Succeeded == pc = "done" /\ stat = "ok"

\* The strings process_args itself writes into compiler_args: the markers, the
\* options of the preprocessed source and the architectures.
OwnCompilerTokens ==
  {<<"-","f","p","r","e","p","r","o","c","e","s","s","e","d">>, <<"-","f","d","i","r","e","c","t","i","v","e","s","-","o","n","l","y">>, <<"-","x">>, <<"-","c">>, <<"-","d","c">>, <<"-","a","r","c","h">>,
   args_info.actual_language, p_language_for_language(state.explicit_language)}
    \cup {args_info.arch_args[k] : k \in 1..Len(args_info.arch_args)}

\* C1: dep_args are routed by run_second_cpp. With it compiler_args and
\* extra_args_to_hash end with dep_args and preprocessor_args is common_args
\* followed by cpp_args; without it preprocessor_args ends with dep_args,
\* extra_args_to_hash is compiler_only_args, and a string of dep_args is in
\* compiler_args only if another vector or process_args itself put it there.
C1_DepRouting ==
  Succeeded =>
    IF config.run_second_cpp
    THEN /\ EndsWith(result.compiler_args, state.dep_args)
         /\ result.extra_args_to_hash = state.compiler_only_args \o state.dep_args
         /\ result.preprocessor_args = state.common_args \o state.cpp_args
    ELSE /\ EndsWith(result.preprocessor_args, state.dep_args)
         /\ result.extra_args_to_hash = state.compiler_only_args
         /\ \A d \in FullSet(state.dep_args) \cap FullSet(result.compiler_args) :
              d \in FullSet(state.common_args) \cup FullSet(state.compiler_only_args)
                      \cup FullSet(state.cpp_args) \cup OwnCompilerTokens

\* A call with dependency options succeeded on either side of the routing;
\* here with the second preprocessor run.
C1_Witness ==
  /\ Succeeded
  /\ config.run_second_cpp
  /\ Len(state.dep_args) >= 2
  /\ <<"-","M","D">> \in FullSet(result.compiler_args)

\* The string a -MF token is emitted as: the value made relative, glued to
\* -MF as the token was, with "=" dropped.
MF_emitted(arg) ==
  LET rel == make_relative_path(config.base_dir, arg.value)
  IN IF arg.split_char = "space" THEN <<"-","M","F"," ">> \o rel ELSE <<"-","M","F">> \o rel

\* C9: process_arg on a -MF token, however it is glued, appends one element to
\* dep_args: -MF<rel(v)> for -MF=<v> and for -MF<v>, "-MF <rel(v)>" for
\* "-MF <v>", with the value made relative.
C9_MFEmission ==
  [][(/\ pc = "loop"
      /\ dispatched' # dispatched
      /\ args[i + 1].key = <<"-","M","F">>)
       => /\ Len(state'.dep_args) = Len(state.dep_args) + 1
          /\ SubSeq(state'.dep_args, 1, Len(state.dep_args)) = state.dep_args
          /\ LET e == state'.dep_args[Len(state'.dep_args)]
             IN /\ e.full = MF_emitted(args[i + 1])
                /\ e.key = <<"-","M","F">>
                /\ e.value = make_relative_path(config.base_dir, args[i + 1].value)]_vars

\* -MF=/w/x.d was processed and dep_args has -MF./x.d.
C9_Witness ==
  /\ \E k \in 1..Len(dispatched) : dispatched[k].full = <<"-","M","F","=","/","w","/","x",".","d">>
  /\ <<"-","M","F",".","/","x",".","d">> \in FullSet(state.dep_args)
  /\ <<"-","M","F","=",".","/","x",".","d">> \notin FullSet(state.dep_args)

\* What the end of process_args appends to dep_args.
AppendedDeps == SubSeq(state'.dep_args, Len(state.dep_args) + 1, Len(state'.dep_args))

\* C10: when dependencies are generated and no dependency file was specified,
\* the end of process_args appends "-MF", <output_obj with .d> to dep_args if
\* and only if run_second_cpp is false; when a -MF was given nothing but the
\* default target is appended.
C10_DefaultMF ==
  [][(/\ pc = "loop"
      /\ pc' = "done"
      /\ stat' = "ok"
      /\ args_info'.generating_dependencies)
       => LET default_MF == <<ArgFromToken(<<"-","M","F">>),
                              ArgFromToken(change_extension(args_info'.output_obj, <<".","d">>))>>
              default_MQ == <<ArgFromToken(<<"-","M","Q">>), ArgFromToken(args_info'.output_obj)>>
          IN /\ SubSeq(state'.dep_args, 1, Len(state.dep_args)) = state.dep_args
             /\ IF ~state'.dependency_filename_specified /\ ~config'.run_second_cpp
                THEN AppendedDeps \in {default_MF, default_MF \o default_MQ}
                ELSE AppendedDeps \in {<<>>, default_MQ}
             /\ (\E k \in 1..Len(dispatched) : dispatched[k].key = <<"-","M","F">>)
                  => state'.dependency_filename_specified]_vars

\* -MD without a dependency file and without the second preprocessor run:
\* dep_args ends with the default -MF a.d and the default target.
C10_Witness ==
  /\ Succeeded
  /\ ~config.run_second_cpp
  /\ args_info.generating_dependencies
  /\ ~state.dependency_filename_specified
  /\ \E k \in 1..(Len(state.dep_args) - 1) :
       /\ state.dep_args[k].full = <<"-","M","F">>
       /\ state.dep_args[k + 1].full = <<"a",".","d">>

\* C2 as the specification states it: every string of cpp_args is in
\* preprocessor_args, and in compiler_args with run_second_cpp; without it and
\* without -fdirectives-only and -frewrite-includes no string of cpp_args is
\* in compiler_args.
C2_AsStated ==
  Succeeded =>
    LET cpp == FullSet(state.cpp_args)
        comp == FullSet(result.compiler_args)
    IN /\ cpp \subseteq FullSet(result.preprocessor_args)
       /\ config.run_second_cpp => cpp \subseteq comp
       /\ (/\ ~config.run_second_cpp
           /\ ~state.found_directives_only
           /\ ~state.found_rewrite_includes) => cpp \cap comp = {}

\* C2: cpp_args follow common_args in preprocessor_args; with run_second_cpp
\* they follow compiler_only_args in compiler_args; without it and without
\* -fdirectives-only and -frewrite-includes a string of cpp_args is in
\* compiler_args only if another vector or process_args itself put it there
\* (the colour option, -x).
C2_CppRouting ==
  Succeeded =>
    LET before == Len(state.common_args) + Len(state.compiler_only_args)
    IN /\ SubSeq(result.preprocessor_args, Len(state.common_args) + 1,
                 Len(state.common_args) + Len(state.cpp_args)) = state.cpp_args
       /\ config.run_second_cpp =>
            SubSeq(result.compiler_args, before + 1, before + Len(state.cpp_args))
              = state.cpp_args
       /\ (/\ ~config.run_second_cpp
           /\ ~state.found_directives_only
           /\ ~state.found_rewrite_includes) =>
            \A c \in FullSet(state.cpp_args) \cap FullSet(result.compiler_args) :
              c \in FullSet(state.common_args) \cup FullSet(state.compiler_only_args)
                      \cup OwnCompilerTokens

\* Without the second preprocessor run -DX went to the preprocessor alone.
C2_Witness ==
  /\ Succeeded
  /\ ~config.run_second_cpp
  /\ ~state.found_directives_only
  /\ ~state.found_rewrite_includes
  /\ <<"-","D","X">> \in FullSet(state.cpp_args)
  /\ <<"-","D","X">> \in FullSet(result.preprocessor_args)
  /\ <<"-","D","X">> \notin FullSet(result.compiler_args)

\* The token process_arg is called on affects only the compilation.
AffectsCompOnly(arg) ==
  compopt_affects_comp(arg.full) \/ compopt_prefix_affects_comp(arg.full)

\* The token takes the token after it as its argument.
TakesNextArg(arg) ==
  /\ compopt_affects_comp(arg.full)
  /\ compopt_takes_arg(arg.full) \/ (guessed_compiler = "nvcc" /\ Is(arg, <<"-","W","e","r","r","o","r">>))

\* C3: process_arg on a token that affects only the compilation appends it,
\* and the argument it takes, to compiler_only_args and to no other vector;
\* compiler_only_args are in compiler_args and in extra_args_to_hash and are
\* no part of preprocessor_args: one of its strings is there only if the same
\* string is also in common_args, cpp_args or dep_args, given again as
\* another token.
C3_CompilerOnly ==
  [][/\ (/\ pc = "loop"
         /\ dispatched' # dispatched
         /\ AffectsCompOnly(args[i + 1])
         /\ stat' = "none")
          => /\ state'.compiler_only_args =
                  state.compiler_only_args
                    \o (IF TakesNextArg(args[i + 1]) THEN <<args[i + 1], args[i + 2]>>
                        ELSE <<args[i + 1]>>)
             /\ state'.common_args = state.common_args
             /\ state'.cpp_args = state.cpp_args
             /\ state'.dep_args = state.dep_args
     /\ (pc' = "done" /\ stat' = "ok")
          => /\ SubSeq(result'.compiler_args, Len(state'.common_args) + 1,
                       Len(state'.common_args) + Len(state'.compiler_only_args))
                  = state'.compiler_only_args
             /\ SubSeq(result'.extra_args_to_hash, 1, Len(state'.compiler_only_args))
                  = state'.compiler_only_args
             /\ \A c \in FullSet(state'.compiler_only_args)
                           \cap FullSet(result'.preprocessor_args) :
                  c \in FullSet(state'.common_args) \cup FullSet(state'.cpp_args)
                          \cup FullSet(state'.dep_args)]_vars

\* -Werror and -Xlinker with its argument went to the compiler alone.
C3_Witness ==
  /\ Succeeded
  /\ \E k \in 1..Len(dispatched) : dispatched[k].full = <<"-","X","l","i","n","k","e","r">>
  /\ \E k \in 1..(Len(result.compiler_args) - 1) :
       /\ result.compiler_args[k].full = <<"-","X","l","i","n","k","e","r">>
       /\ result.compiler_args[k + 1].full = <<"-","W","e","r","r","o","r">>
  /\ <<"-","X","l","i","n","k","e","r">> \in FullSet(result.extra_args_to_hash)
  /\ <<"-","X","l","i","n","k","e","r">> \notin FullSet(result.preprocessor_args)
  /\ <<"-","W","e","r","r","o","r">> \notin FullSet(result.preprocessor_args)

\* C4: preprocessor_args is common_args, then cpp_args, then dep_args if
\* run_second_cpp is false, as the vectors stand at the end of process_args;
\* its first element is the compiler, args[0].
C4_PreprocessorArgs ==
  Succeeded =>
    /\ Fulls(result.preprocessor_args) =
         Fulls(state.common_args) \o Fulls(state.cpp_args)
           \o (IF config.run_second_cpp THEN <<>> ELSE Fulls(state.dep_args))
    /\ result.preprocessor_args[1].full = orig_args[1].full

\* All three vectors are in preprocessor_args.
C4_Witness ==
  /\ Succeeded
  /\ ~config.run_second_cpp
  /\ <<"-","D","X">> \in FullSet(state.cpp_args)
  /\ Len(state.cpp_args) >= 2
  /\ Len(state.dep_args) >= 2
  /\ Len(result.preprocessor_args)
       = Len(state.common_args) + Len(state.cpp_args) + Len(state.dep_args)

\* The last string of compiler_args.
LastCompilerArg == result.compiler_args[Len(result.compiler_args)].full

\* C5 as the specification states it: compiler_args begins with the compiler
\* and ends with the -c, -dc or -S marker.
C5_AsStated ==
  Succeeded =>
    /\ result.compiler_args[1].full = orig_args[1].full
    /\ LastCompilerArg \in {<<"-","c">>, <<"-","d","c">>, <<"-","S">>}

\* The end of compiler_args: the -c and -dc markers found, "-arch <v>" for
\* each architecture and, with run_second_cpp, dep_args.
CompilerArgsTail ==
  (IF state.found_c_opt THEN <<<<"-","c">>>> ELSE <<>>)
    \o (IF state.found_dc_opt THEN <<<<"-","d","c">>>> ELSE <<>>)
    \o Fulls(arch_options(args_info.arch_args))
    \o (IF config.run_second_cpp THEN Fulls(state.dep_args) ELSE <<>>)

\* C5: compiler_args begins with the compiler, args[0]; it ends with the -c
\* and -dc markers found, followed by "-arch <v>" for each architecture and,
\* with run_second_cpp, by dep_args; -S is in common_args, where it was given.
C5_CompilerArgsEnds ==
  Succeeded =>
    /\ result.compiler_args[1].full = orig_args[1].full
    /\ EndsWith(Fulls(result.compiler_args), CompilerArgsTail)
    /\ state.found_S_opt => <<"-","S">> \in FullSet(state.common_args)
    /\ SubSeq(result.compiler_args, 1, Len(state.common_args)) = state.common_args
    /\ (/\ args_info.arch_args = <<>>
        /\ ~config.run_second_cpp \/ state.dep_args = <<>>
        /\ state.found_c_opt \/ state.found_dc_opt)
         => LastCompilerArg \in {<<"-","c">>, <<"-","d","c">>}

\* With run_second_cpp the dependency options follow the -c marker.
C5_Witness ==
  /\ Succeeded
  /\ config.run_second_cpp
  /\ state.found_c_opt
  /\ LastCompilerArg = <<"-","M","D">>

\* This step is a call of process_arg on args[i].
ProcessArgStep == pc = "loop" /\ dispatched' # dispatched

\* A non-option token that names a regular file, or /dev/null.
IsBareFile(arg) ==
  /\ arg.full # <<>>
  /\ arg.full[1] \notin {"-", "@"}
  /\ arg.full = <<"/","d","e","v","/","n","u","l","l">> \/ Stat(arg.full) = "regular"

\* The Statistic of a second input file.
SecondFileStatistic(arg) ==
  IF language_for_file(arg.full) # <<>> THEN "multiple_source_files"
  ELSE IF ~state.found_c_opt /\ ~state.found_dc_opt
       THEN IF Contains(arg.full, <<"c","o","n","f","t","e","s","t",".">>) THEN "autoconf_test" ELSE "called_for_link"
  ELSE "unsupported_source_language"

\* C6: input_file is set once: the first bare file name sets it, no later
\* step changes it, and a second bare file name ends the call with
\* MultipleSourceFiles, CalledForLink, AutoconfTest or
\* UnsupportedSourceLanguage.
C6_InputFileOnce ==
  [][/\ args_info.input_file # <<>> => args_info'.input_file = args_info.input_file
     /\ (ProcessArgStep /\ IsBareFile(args[i + 1]))
          => IF args_info.input_file = <<>>
             THEN /\ stat' = "none"
                  /\ args_info'.input_file
                       = IF args_info.generating_coverage THEN args[i + 1].full
                         ELSE make_relative_path(config.base_dir, args[i + 1].full)
             ELSE /\ pc' = "done"
                  /\ stat' = SecondFileStatistic(args[i + 1])]_vars

\* The second source file ended the call; input_file is still the first.
C6_Witness ==
  /\ pc = "done"
  /\ stat = "multiple_source_files"
  /\ args_info.input_file = <<"a",".","c">>
  /\ dispatched[Len(dispatched)].full = <<"b",".","c">>

\* The four vectors of the state.
VectorNames == {"common_args", "cpp_args", "dep_args", "compiler_only_args"}

\* What a step does: appends to a vector, changes ArgsInfo or Config, ends
\* the call with a Statistic.
Emits == \E v \in VectorNames : state'[v] # state[v]

Mutates == args_info' # args_info \/ config' # config

Terminates == stat' # "none"

\* C7 as the specification states it: each call of process_arg does exactly
\* one of: emit to one of the four vectors, change ArgsInfo or Config, end the
\* call with a Statistic.
C7_AsStated ==
  [][ProcessArgStep =>
       \/ Emits /\ ~Mutates /\ ~Terminates
       \/ ~Emits /\ Mutates /\ ~Terminates
       \/ ~Emits /\ ~Mutates /\ Terminates]_vars

\* C7: each call of process_arg appends to at most one of the four vectors
\* and changes none of them otherwise; it may also change ArgsInfo or Config
\* in the same call (-MD, -g), or do neither and only set a flag of the
\* processing state (-c); a call that returns a Statistic ends process_args.
C7_OneVector ==
  [][ProcessArgStep =>
       /\ \A v \in VectorNames :
            /\ Len(state'[v]) >= Len(state[v])
            /\ SubSeq(state'[v], 1, Len(state[v])) = state[v]
       /\ \A v, w \in VectorNames :
            (state'[v] # state[v] /\ state'[w] # state[w]) => v = w
       /\ Terminates <=> pc' = "done"]_vars

\* -MD was emitted to dep_args and changed ArgsInfo; -c did neither.
C7_Witness ==
  /\ Succeeded
  /\ \E k \in 1..Len(dispatched) : dispatched[k].full = <<"-","M","D">>
  /\ \E k \in 1..Len(dispatched) : dispatched[k].full = <<"-","c">>
  /\ <<"-","M","D">> \in FullSet(state.dep_args)
  /\ args_info.generating_dependencies
  /\ state.found_c_opt
  /\ \A v \in VectorNames : <<"-","c">> \notin FullSet(state[v])

\* The option is always too hard: one of the table, -fdump-* or -MJ*.
AlwaysTooHard(arg) ==
  \/ compopt_too_hard(arg.full)
  \/ StartsWith(arg.full, <<"-","f","d","u","m","p","-">>)
  \/ StartsWith(arg.full, <<"-","M","J">>)

\* C8: tokens are dispatched left to right and the first one that triggers a
\* terminal rule ends the call: -E with CalledForPreprocessing, a too hard
\* option, -fdump-* or -MJ* with UnsupportedCompilerOption; the checks after
\* the loop run only when every token was dispatched without a Statistic.
C8_FirstTerminal ==
  [][/\ pc # "done"
     /\ ProcessArgStep
          => /\ dispatched' = Append(dispatched, args[i + 1])
             /\ \/ i' > i
                \/ /\ i' = i
                   /\ \/ StartsWith(args[i + 1].full, <<"@">>)
                      \/ StartsWith(args[i + 1].full, <<"-","@">>)
             /\ Is(args[i + 1], <<"-","E">>)
                  => pc' = "done" /\ stat' = "called_for_preprocessing"
             /\ AlwaysTooHard(args[i + 1])
                  => pc' = "done" /\ stat' = "unsupported_compiler_option"
             /\ stat' # "none" => pc' = "done"
     /\ (pc = "loop" /\ ~ProcessArgStep)
          => /\ i >= Len(args)
             /\ stat = "none"
             /\ \A k \in 1..Len(dispatched) :
                  ~Is(dispatched[k], <<"-","E">>) /\ ~AlwaysTooHard(dispatched[k])]_vars

\* -E behind -c and a regular input file ended the call.
C8_Witness ==
  /\ pc = "done"
  /\ stat = "called_for_preprocessing"
  /\ state.found_c_opt
  /\ args_info.input_file = <<"a",".","c">>
  /\ dispatched[Len(dispatched)].full = <<"-","E">>
  /\ i < Len(args)

\* A -MT or -MQ option with its target, glued or fused, was processed.
TargetGiven == \E k \in 1..Len(dispatched) : dispatched[k].key \in {<<"-","M","T">>, <<"-","M","Q">>}

\* One of the dependency environment variables is set.
EnvGiven == env.DEPENDENCIES_OUTPUT.set \/ env.SUNPRO_DEPENDENCIES.set

\* C11: when dependencies are generated, the end of process_args appends
\* "-MQ", <output_obj> to dep_args if and only if run_second_cpp is false and
\* no dependency target was specified, neither by a -MT or -MQ option (with a
\* space or written together) nor through DEPENDENCIES_OUTPUT or
\* SUNPRO_DEPENDENCIES.
C11_DefaultMQ ==
  [][(/\ pc = "loop"
      /\ pc' = "done"
      /\ stat' = "ok"
      /\ args_info'.generating_dependencies)
       => LET default_MF == <<ArgFromToken(<<"-","M","F">>),
                              ArgFromToken(change_extension(args_info'.output_obj, <<".","d">>))>>
              default_MQ == <<ArgFromToken(<<"-","M","Q">>), ArgFromToken(args_info'.output_obj)>>
          IN /\ SubSeq(state'.dep_args, 1, Len(state.dep_args)) = state.dep_args
             /\ IF ~config'.run_second_cpp /\ ~TargetGiven /\ ~EnvGiven
                THEN AppendedDeps \in {default_MQ, default_MF \o default_MQ}
                ELSE AppendedDeps \in {<<>>, default_MF}]_vars

\* -MD without a target and without the second preprocessor run: dep_args
\* ends with the default target -MQ a.o.
C11_Witness ==
  /\ Succeeded
  /\ ~config.run_second_cpp
  /\ ~TargetGiven
  /\ ~EnvGiven
  /\ Len(state.dep_args) >= 3
  /\ state.dep_args[Len(state.dep_args) - 1].full = <<"-","M","Q">>
  /\ state.dep_args[Len(state.dep_args)].full = <<"a",".","o">>

\* The vectors of the state other than v are as they were.
OthersUnchanged(v) == \A w \in VectorNames \ {v} : state'[w] = state[w]

\* The path made relative with the base directory of the call.
RelPath(path) == make_relative_path(config.base_dir, path)

\* C12: the sysroot is made relative in both forms: --sysroot=<v> appends the
\* one token --sysroot=<rel(v)> to common_args and "--sysroot <v>" the two
\* tokens --sysroot and <rel(v)>; with the root as the base directory,
\* /w/foo/bar in the working directory /w is emitted as ./foo/bar.
C12_Sysroot ==
  [][ProcessArgStep =>
       LET arg == args[i + 1]
       IN /\ arg.key = <<"-","-","s","y","s","r","o","o","t">>
               => /\ stat' = "none"
                  /\ state'.common_args
                       = Append(state.common_args,
                                ArgFromToken(<<"-","-","s","y","s","r","o","o","t","=">> \o RelPath(arg.value)))
                  /\ OthersUnchanged("common_args")
                  /\ i' = i + 1
                  /\ (config.base_dir = <<"/">> /\ arg.value = <<"/","w","/","f","o","o","/","b","a","r">>)
                       => state'.common_args[Len(state'.common_args)].full
                            = <<"-","-","s","y","s","r","o","o","t","=",".","/","f","o","o","/","b","a","r">>
          /\ (Is(arg, <<"-","-","s","y","s","r","o","o","t">>) /\ i + 1 < Len(args))
               => /\ stat' = "none"
                  /\ state'.common_args
                       = state.common_args
                           \o <<arg, ArgFromToken(RelPath(args[i + 2].full))>>
                  /\ OthersUnchanged("common_args")
                  /\ i' = i + 2
                  /\ (config.base_dir = <<"/">> /\ Is(args[i + 2], <<"/","w","/","f","o","o","/","b","a","r">>))
                       => state'.common_args[Len(state'.common_args)].full = <<".","/","f","o","o","/","b","a","r">>]_vars

\* Both forms were processed with the root as the base directory.
C12_Witness ==
  /\ Succeeded
  /\ config.base_dir = <<"/">>
  /\ \E k \in 1..Len(dispatched) : dispatched[k].full = <<"-","-","s","y","s","r","o","o","t","=","/","w","/","f","o","o","/","b","a","r">>
  /\ \E k \in 1..(Len(state.common_args) - 2) :
       /\ state.common_args[k].full = <<"-","-","s","y","s","r","o","o","t","=",".","/","f","o","o","/","b","a","r">>
       /\ state.common_args[k + 1].full = <<"-","-","s","y","s","r","o","o","t">>
       /\ state.common_args[k + 2].full = <<".","/","f","o","o","/","b","a","r">>

\* The vector an option goes to: cpp_args if it affects the preprocessor.
PathDest(option) == IF compopt_affects_cpp(option) THEN "cpp_args" ELSE "common_args"

\* The part of a token before its first '/', and the part from it on.
OptionPart(full) == SubSeq(full, 1, Find(full, "/", 0) - 1)

PathPart(full) == SubSeq(full, Find(full, "/", 0), Len(full))

\* C13: the path of an option that takes a path is made relative in both
\* gluings. "<opt> <path>" appends the option and the next token made
\* relative; <opt>/abs/path, for an option that takes a concatenated argument
\* and a path, appends the option glued to the part from the first '/' made
\* relative; both to cpp_args if the option affects the preprocessor, to
\* common_args otherwise.
C13_TakesPath ==
  [][ProcessArgStep =>
       LET arg == args[i + 1]
           hop == IF Is(args[i + 2], <<"-","X","c","l","a","n","g">>) /\ i + 2 < Len(args) THEN 1 ELSE 0
           dest == PathDest(arg.full)
           cdest == PathDest(OptionPart(arg.full))
       IN /\ (compopt_takes_path(arg.full) /\ i + 1 < Len(args) /\ stat' = "none")
               => /\ state'[dest]
                       = state[dest]
                           \o <<arg>>
                           \o (IF hop = 1 THEN <<args[i + 2]>> ELSE <<>>)
                           \o <<ArgFromToken(RelPath(args[i + 2 + hop].full))>>
                  /\ OthersUnchanged(dest)
                  /\ i' = i + 2 + hop
                  /\ (config.base_dir = <<"/">> /\ Is(args[i + 2], <<"/","w","/","f","o","o","/","b","a","r">>))
                       => state'[dest][Len(state'[dest])].full = <<".","/","f","o","o","/","b","a","r">>
          /\ (/\ arg.full[1] = "-"
              /\ Find(arg.full, "/", 0) # 0
              /\ compopt_takes_concat_arg(OptionPart(arg.full))
              /\ compopt_takes_path(OptionPart(arg.full)))
               => /\ stat' = "none"
                  /\ state'[cdest]
                       = Append(state[cdest],
                                ArgFromToken(OptionPart(arg.full)
                                               \o RelPath(PathPart(arg.full))))
                  /\ OthersUnchanged(cdest)
                  /\ i' = i + 1
                  /\ (config.base_dir = <<"/">> /\ PathPart(arg.full) = <<"/","w","/","f","o","o","/","b","a","r">>)
                       => state'[cdest][Len(state'[cdest])].full
                            = OptionPart(arg.full) \o <<".","/","f","o","o","/","b","a","r">>]_vars

\* -I/w/foo/bar went to cpp_args as -I./foo/bar and "-B /w/foo/bar" to
\* common_args as -B ./foo/bar.
C13_Witness ==
  /\ Succeeded
  /\ config.base_dir = <<"/">>
  /\ <<"-","I",".","/","f","o","o","/","b","a","r">> \in FullSet(state.cpp_args)
  /\ \E k \in 1..(Len(state.common_args) - 1) :
       /\ state.common_args[k].full = <<"-","B">>
       /\ state.common_args[k + 1].full = <<".","/","f","o","o","/","b","a","r">>

\* The real path of a path that exists: relative paths are in the working
\* directory.
real_path(path) ==
  IF path # <<>> /\ path[1] = "/" THEN path ELSE apparent_cwd \o <<"/">> \o path

\* The string -fprofile-generate=<dir> is to be emitted as.
ProfileGenerateEmitted(arg) ==
  IF Stat(arg.value) # "none" THEN arg.key \o <<"=">> \o real_path(arg.value)
  ELSE arg.full

\* C14 as the specification states it: -fprofile-generate=<dir> is emitted to
\* preprocessor_args and compiler_args with <dir> replaced by its real path if
\* <dir> exists, and as it is if <dir> does not exist.
C14_AsStated ==
  Succeeded =>
    \A k \in 1..Len(dispatched) :
      dispatched[k].key = <<"-","f","p","r","o","f","i","l","e","-","g","e","n","e","r","a","t","e">>
        => /\ ProfileGenerateEmitted(dispatched[k]) \in FullSet(result.preprocessor_args)
           /\ ProfileGenerateEmitted(dispatched[k]) \in FullSet(result.compiler_args)

\* A profile-generate option, with or without a value.
IsProfileGenerate(arg) ==
  \/ arg.full \in {<<"-","f","p","r","o","f","i","l","e","-","g","e","n","e","r","a","t","e">>, <<"-","f","p","r","o","f","i","l","e","-","i","n","s","t","r","-","g","e","n","e","r","a","t","e">>}
  \/ arg.key \in {<<"-","f","p","r","o","f","i","l","e","-","g","e","n","e","r","a","t","e">>, <<"-","f","p","r","o","f","i","l","e","-","i","n","s","t","r","-","g","e","n","e","r","a","t","e">>}

\* A profile-use option, with or without a value.
IsProfileUse(arg) ==
  \/ arg.full \in {<<"-","f","p","r","o","f","i","l","e","-","u","s","e">>, <<"-","f","p","r","o","f","i","l","e","-","i","n","s","t","r","-","u","s","e">>, <<"-","f","p","r","o","f","i","l","e","-","s","a","m","p","l","e","-","u","s","e">>,
                   <<"-","f","b","r","a","n","c","h","-","p","r","o","b","a","b","i","l","i","t","i","e","s">>, <<"-","f","a","u","t","o","-","p","r","o","f","i","l","e">>}
  \/ arg.key \in {<<"-","f","p","r","o","f","i","l","e","-","u","s","e">>, <<"-","f","p","r","o","f","i","l","e","-","i","n","s","t","r","-","u","s","e">>, <<"-","f","p","r","o","f","i","l","e","-","s","a","m","p","l","e","-","u","s","e">>,
                  <<"-","f","a","u","t","o","-","p","r","o","f","i","l","e">>}

RequiresArgument(arg) ==
  \/ arg.full \in {<<"-","o">>, <<"-","-","s","y","s","r","o","o","t">>, <<"-","t","a","r","g","e","t">>, <<"-","-","s","e","r","i","a","l","i","z","e","-","d","i","a","g","n","o","s","t","i","c","s">>,
                   <<"-","-","c","c","a","c","h","e","-","s","k","i","p">>}
  \/ Is(arg, <<"-","i","n","d","e","x","-","s","t","o","r","e","-","p","a","t","h">>) /\ "clang_index_store" \in config.sloppiness
  \/ compopt_takes_path(arg.full)
  \/ compopt_takes_arg(arg.full)

\* C16 as the specification states it: process_arg on an option that requires
\* a following argument and is the last token of the command line returns
\* BadCompilerArguments, and process_args returns no argument vectors.
C16_AsStated ==
  [][(/\ ProcessArgStep
      /\ i = Len(args) - 1
      /\ RequiresArgument(args[i + 1]))
       => /\ pc' = "done"
          /\ stat' = "bad_compiler_arguments"
          /\ result' = NoResult]_vars

\* -Wp options that are none of the forms process_arg knows.
UnrecognisedWp == {<<"-","W","p",",","-","x">>, <<"-","W","p",",","-","M","D",",","a",",","b">>}

\* The token turns the direct mode off.
DisablesDirectMode(arg) ==
  compopt_too_hard_for_direct_mode(arg.full) \/ arg.full \in UnrecognisedWp

\* process_arg on a token that turns the direct mode off: the direct mode is
\* off afterwards, the token is appended to one vector and there is no
\* Statistic.
DegradesOnly ==
  (ProcessArgStep /\ config.direct_mode /\ DisablesDirectMode(args[i + 1]))
    => /\ ~config'.direct_mode
       /\ stat' = "none"
       /\ \E v \in VectorNames :
            state'[v] = Append(state[v], args[i + 1]) /\ OthersUnchanged(v)

\* C17 as the specification states it: turning the direct mode off never
\* fails the call, neither in the step that does it nor in a later one: a
\* -fmodules in depend mode with the "modules" sloppiness returns no Statistic
\* after the direct mode was turned off.
C17_AsStated ==
  [][/\ DegradesOnly
     /\ (/\ ProcessArgStep
         /\ Is(args[i + 1], <<"-","f","m","o","d","u","l","e","s">>)
         /\ config.depend_mode
         /\ "modules" \in config.sloppiness)
          => stat' = "none"]_vars

\* C17: the step that turns the direct mode off returns no Statistic and
\* still emits its token; a later -fmodules does end the call, with
\* CouldNotUseModules, because the direct mode is off, and passes when it is
\* on.
C17_DirectModeOff ==
  [][/\ DegradesOnly
     /\ (/\ ProcessArgStep
         /\ Is(args[i + 1], <<"-","f","m","o","d","u","l","e","s">>)
         /\ config.depend_mode
         /\ "modules" \in config.sloppiness)
          => IF config.direct_mode
             THEN stat' = "none"
             ELSE pc' = "done" /\ stat' = "could_not_use_modules"]_vars

\* -Xpreprocessor turned the direct mode off and was emitted; the -fmodules
\* after it ended the call.
C17_Witness ==
  /\ pc = "done"
  /\ stat = "could_not_use_modules"
  /\ ~config.direct_mode
  /\ dispatched[Len(dispatched)].full = <<"-","f","m","o","d","u","l","e","s">>
  /\ \E k \in 1..Len(dispatched) : dispatched[k].full = <<"-","X","p","r","e","p","r","o","c","e","s","s","o","r">>
  /\ <<"-","X","p","r","e","p","r","o","c","e","s","s","o","r">> \in FullSet(state.common_args)

\* add_param for the n-th registered parameter.
add_registered(v, n) == add_param(v, registered_params[n].param, registered_params[n].splits)

EqualSigns(full) == {p \in 1..Len(full) : full[p] = "="}

\* The Arg of the parts of full before and after position p.
FromPartsAt(full, p) ==
  ArgFromParts(SubSeq(full, 1, p - 1), "equal_sign", SubSeq(full, p + 1, Len(full)))

\* C19 as the specification states it: for every key k and value v, the Arg
\* of the token k=v has the same full, split_char, key and value as the Arg
\* of (k, equal_sign, v); (k, not_split, v) gives no Arg.
C19_AsStated ==
  \A n \in 1..Len(orig_args) :
    /\ \A p \in EqualSigns(orig_args[n].full) :
         orig_args[n] = FromPartsAt(orig_args[n].full, p)
    /\ ArgFromParts(orig_args[n].key, "not_split", orig_args[n].value) = InvalidArg

\* C19: for every key k without '=' and every value v, the Arg of the token
\* k=v has the same full, split_char, key and value as the Arg of
\* (k, equal_sign, v); for a key with '=' only full and split_char are the
\* same, the token is split at its first '='; (k, not_split, v) gives no Arg.
C19_RoundTrip ==
  \A n \in 1..Len(orig_args) :
    LET full == orig_args[n].full
    IN /\ \A p \in EqualSigns(full) :
            /\ FromPartsAt(full, p).full = full
            /\ FromPartsAt(full, p).split_char = orig_args[n].split_char
            /\ (\A q \in EqualSigns(full) : p <= q) => orig_args[n] = FromPartsAt(full, p)
       /\ ArgFromParts(orig_args[n].key, "not_split", orig_args[n].value) = InvalidArg

\* The command line has a token with two '=', split at the first.
C19_Witness ==
  \E n \in 1..Len(orig_args) :
    /\ Cardinality(EqualSigns(orig_args[n].full)) = 2
    /\ orig_args[n].split_char = "equal_sign"
    /\ orig_args[n].key = <<"-","f","d","e","b","u","g","-","p","r","e","f","i","x","-","m","a","p">>
    /\ orig_args[n].value = <<"/","o","=","/","n">>

\* C20 as the specification states it: process_arg on --ccache-skip appends
\* the next token as it is to common_args and goes on behind that token,
\* whatever the token is; nothing else is emitted or changed.
C20_AsStated ==
  [][(/\ ProcessArgStep
      /\ \/ args[i + 1].key = <<"-","-","c","c","a","c","h","e","-","s","k","i","p">>
         \/ Is(args[i + 1], <<"-","-","c","c","a","c","h","e","-","s","k","i","p">>) /\ i + 1 < Len(args))
       => LET fused == args[i + 1].key = <<"-","-","c","c","a","c","h","e","-","s","k","i","p">>
              tok == IF fused THEN args[i + 1].value ELSE args[i + 2].full
          IN /\ stat' = "none"
             /\ state'.common_args = Append(state.common_args, ArgFromToken(tok))
             /\ OthersUnchanged("common_args")
             /\ args_info' = args_info
             /\ i' = IF fused THEN i + 1 ELSE i + 2]_vars

\* A token of the -g family.
IsDebugOption(arg) == StartsWith(arg.full, <<"-","g">>)

\* The -g options process_arg was called on, in order.
DebugOptionsSeen == SelectSeq(dispatched, IsDebugOption)

\* The -g options of a vector, in order.
DebugOptionsOf(v) == SelectSeq(v, IsDebugOption)

\* C21: every -g* token process_arg is called on is pushed unchanged to
\* common_args, so that after a successful call the -g options of
\* preprocessor_args and of compiler_args are the -g options of the command
\* line in their order, with -gsplit-dwarf before or after a level.
C21_DebugOptionsKept ==
  Succeeded =>
    /\ DebugOptionsOf(state.common_args) = DebugOptionsSeen
    /\ DebugOptionsOf(result.preprocessor_args) = DebugOptionsSeen
    /\ DebugOptionsOf(result.compiler_args) = DebugOptionsSeen
    /\ SubSeq(result.preprocessor_args, 1, Len(state.common_args)) = state.common_args
    /\ SubSeq(result.compiler_args, 1, Len(state.common_args)) = state.common_args

\* -gsplit-dwarf and -g1 in both orders reach both vectors of the result.
C21_Witness ==
  /\ Succeeded
  /\ Fulls(DebugOptionsSeen) \in {<<<<"-","g","1">>, <<"-","g","s","p","l","i","t","-","d","w","a","r","f">>>>, <<<<"-","g","s","p","l","i","t","-","d","w","a","r","f">>, <<"-","g","1">>>>}
  /\ DebugOptionsOf(result.compiler_args) = DebugOptionsSeen

\* A -g option that selects level 3: it ends in '3' and is no -gdwarf* and
\* no -gz*.
IsLevel3(arg) ==
  /\ IsDebugOption(arg)
  /\ ~StartsWith(arg.full, <<"-","g","d","w","a","r","f">>)
  /\ ~StartsWith(arg.full, <<"-","g","z">>)
  /\ arg.full[Len(arg.full)] = "3"

\* A -g option that disables debug information: it ends in '0'.
IsLevel0(arg) ==
  /\ IsDebugOption(arg)
  /\ ~StartsWith(arg.full, <<"-","g","d","w","a","r","f">>)
  /\ ~StartsWith(arg.full, <<"-","g","z">>)
  /\ arg.full[Len(arg.full)] = "0"

\* A level-3 option was processed and no level-0 option after it.
Level3Pending ==
  \E k \in 1..Len(dispatched) :
    /\ IsLevel3(dispatched[k])
    /\ \A j \in (k + 1)..Len(dispatched) : ~IsLevel0(dispatched[j])

\* C24: a -g option ending in '3' that no later -g*0 follows forces
\* run_second_cpp on every successful return; a -g*0 clears
\* generating_debuginfo and the level-3 flag, and no -g option changes the
\* Config itself, so that without a pending level 3 (and without CUDA or a
\* precompiled header as output) run_second_cpp is left as it was.
C24_Level3 ==
  [][/\ (pc = "loop" /\ pc' = "done" /\ stat' = "ok")
          => (config'.run_second_cpp
                <=> \/ config.run_second_cpp
                    \/ Level3Pending
                    \/ args_info'.actual_language = <<"c","u">>
                    \/ args_info'.output_is_precompiled_header)
     /\ (pc = "loop" /\ i < Len(args) /\ IsDebugOption(args[i + 1]))
          => /\ config' = config
             /\ stat' = "none"
             /\ state'.generating_debuginfo_level_3 = Level3Pending'
             /\ IsLevel0(args[i + 1]) => ~args_info'.generating_debuginfo]_vars

\* -g3 and then -g0: the call succeeds without the second preprocessor run.
C24_Witness ==
  /\ Succeeded
  /\ Fulls(DebugOptionsSeen) = <<<<"-","g","3">>, <<"-","g","0">>>>
  /\ ~config.run_second_cpp
  /\ ~args_info.generating_debuginfo

\* Response files: one with -MF and its file name, one with -x and its
\* language, one with plain options, one that names another file and one that
\* cannot be read.
RespPool == {<<"@","r","f">>, <<"-","@","r","f">>, <<"@","r","x">>, <<"@","r","p">>, <<"@","r","n">>, <<"@","n","o">>, <<"-","M","D">>, <<"-","E">>}

RespCmdLines == CmdLines(CompileFrame, RespPool, MaxOpts)

\* The Config of the calls with response files.
RespConfig == MakeConfig(FALSE, TRUE, FALSE, {}, <<"/">>)

InitResp ==
  \E argv \in RespCmdLines : InitWith(argv, RespConfig, "unknown", NoEnv, FALSE)

\* Calls on command lines with response files.
SpecResp == InitResp /\ [][Next]_vars

\* A token that names a response file.
IsAtFile(token) == StartsWith(token, <<"@">>) \/ StartsWith(token, <<"-","@">>)

\* The file a response file token names.
AtFilePath(token) == IF token[1] = "-" THEN Substr(token, 2) ELSE Substr(token, 1)

\* The command line with every token that names a readable response file
\* replaced, in place, by the tokens of the file, nested files included, to
\* the given depth.
RECURSIVE ExpandAtFiles(_, _)
ExpandAtFiles(tokens, depth) ==
  IF tokens = <<>> THEN <<>>
  ELSE LET t == Head(tokens)
       IN (IF depth > 0 /\ IsAtFile(t) /\ AtFilePath(t) \in DOMAIN ArgFiles
           THEN ExpandAtFiles(ArgFiles[AtFilePath(t)], depth - 1)
           ELSE <<t>>)
            \o ExpandAtFiles(Tail(tokens), depth)

\* The deepest nesting of the response files of RespPool.
MaxDepth == 2

\* The call on the command line of this call with its response files
\* expanded.
ExpandedCall ==
  process_args(ExpandAtFiles(Fulls(orig_args), MaxDepth), RespConfig,
               guessed_compiler, NoEnv, color_output_possible)

\* process_arg was called on a token that names a response file.
AtFileSeen == \E k \in 1..Len(dispatched) : IsAtFile(dispatched[k].full)

\* Args::to_string(): the full strings joined with spaces, which is how a
\* vector reads as a command line whether an option and its value are one Arg
\* or two.
RECURSIVE Joined(_)
Joined(v) ==
  IF v = <<>> THEN <<>>
  ELSE IF Len(v) = 1 THEN v[1].full
  ELSE v[1].full \o <<" ">> \o Joined(Tail(v))

\* The three vectors of a result as command lines.
JoinedResult(r) ==
  <<Joined(r.preprocessor_args), Joined(r.extra_args_to_hash), Joined(r.compiler_args)>>

\* C22 as stated: a command line with @file or -@file gives the result
\* vectors, the ArgsInfo and the Statistic of the command line with the token
\* replaced by the tokens of the file, also for a file with "-MF x.d" or
\* "-x c".
C22_AsStated ==
  (pc = "done" /\ AtFileSeen) =>
    /\ stat = ExpandedCall.stat
    /\ JoinedResult(result) = JoinedResult(ExpandedCall.result)
    /\ args_info = ExpandedCall.args_info

\* Response files that end (rp, rn), one that names itself (rs) and two that
\* name each other (ra, rb).
LivePool == {<<"@","r","p">>, <<"@","r","n">>, <<"@","r","s">>, <<"@","r","a">>, <<"-","M","D">>, <<"-","E">>}

LiveCmdLines == CmdLines(CompileFrame, LivePool, MaxOpts)

InitLive ==
  \E argv \in LiveCmdLines, r \in BOOLEAN :
    InitWith(argv, MakeConfig(r, TRUE, FALSE, {}, <<"/">>), "unknown", NoEnv, FALSE)

\* One iteration of the loop of process_args, as ProcessArg, without the
\* history of the calls and without a limit on their number.
LoopStep ==
  /\ pc = "loop"
  /\ i < Len(args)
  /\ LET s == process_arg(Cur)
     IN /\ Becomes(s)
        /\ i' = s.i + 1
        /\ pc' = IF s.stat # "none" THEN "done" ELSE "loop"
  /\ UNCHANGED <<orig_args, guessed_compiler, color_output_possible, dispatched>>

NextLive == Start \/ LoopStep \/ Finish

\* The step from the start of process_args into the loop: Start, which is
\* enabled whenever pc is "start".
LeaveStart == pc = "start" /\ pc' = "loop"

\* The step from the end of the argument vector to the return: Finish.
LeaveLoop == pc = "loop" /\ i >= Len(args) /\ pc' = "done"

\* Calls that go on as long as process_args has a step to take: the call is
\* one thread that nothing stops, before the loop, in it and after it.
SpecLive ==
  /\ InitLive
  /\ [][NextLive]_vars
  /\ WF_pc(LeaveStart)
  /\ WF_vars(LoopStep)
  /\ WF_pc(LeaveLoop)

\* C28 as stated: process_args terminates on every command line, by the end
\* of the argument vector or by a Statistic, also when a response file names
\* itself or two response files name each other.
C28_AsStated == <>(pc = "done")

\* Language options: -x with its value as the next token and written
\* together, a language that is not supported, "none" and the Intel option
\* -xHost.
LangPool == {<<"-","x">>, <<"c">>, <<"-","x","c">>, <<"-","x","a","s","s","e","m","b","l","e","r">>, <<"-","x","n","o","n","e">>, <<"-","x","z","z">>, <<"-","x","H","o","s","t">>}

LangCmdLines == CmdLines(CompileFrame, LangPool, MaxOpts)

InitLang ==
  \E argv \in LangCmdLines, r \in BOOLEAN :
    InitWith(argv, MakeConfig(r, TRUE, FALSE, {}, <<"/">>), "unknown", NoEnv, FALSE)

\* Calls with language options before and after the input file.
SpecLang == InitLang /\ [][Next]_vars

\* A -x option with a value that starts with a lowercase letter.
IsLanguageOption(arg) == arg.key = <<"-","x">> /\ arg.value # <<>> /\ IsLower(arg.value[1])

\* A -x option with another value.
IsOtherXOption(arg) == arg.key = <<"-","x">> /\ arg.value # <<>> /\ ~IsLower(arg.value[1])

\* A token that is taken as an input file.
IsInputFileToken(arg) == arg.full[1] # "-" /\ Stat(arg.full) = "regular"

\* The calls of process_arg before the one on the first input file token.
BeforeInputFile(calls) ==
  LET files == {k \in 1..Len(calls) : IsInputFileToken(calls[k])}
  IN IF files = {} THEN calls
     ELSE SubSeq(calls, 1, (CHOOSE k \in files : \A h \in files : k <= h) - 1)

\* The value of the last language option among the calls before the input
\* file, empty if there is none.
LastLanguage(calls) ==
  LET options == SelectSeq(BeforeInputFile(calls), IsLanguageOption)
  IN IF options = <<>> THEN <<>> ELSE options[Len(options)].value

\* The four vectors process_arg emits to.
OutputVectors ==
  <<state.common_args, state.cpp_args, state.dep_args, state.compiler_only_args>>

\* C23: in the loop explicit_language is the value of the last -x option with
\* a lowercase value that precedes the input file token, and a -x option
\* after the input file does not change it; a lowercase -x option is copied to
\* no vector in the loop, a -x option with another value is pushed to
\* common_args; at the end of a successful call "-x", <explicit_language> is
\* appended once to cpp_args, and nothing for "none" or without language.
C23_ExplicitLanguage ==
  /\ [](pc = "loop" => state.explicit_language = LastLanguage(dispatched))
  /\ [](Succeeded =>
          state.explicit_language =
            IF LastLanguage(dispatched) = <<"n","o","n","e">> THEN <<>> ELSE LastLanguage(dispatched))
  /\ [][/\ (pc = "loop" /\ i < Len(args) /\ IsLanguageOption(args[i + 1]))
             => /\ OutputVectors' = OutputVectors
                /\ stat' = "none"
        /\ (pc = "loop" /\ i < Len(args) /\ IsOtherXOption(args[i + 1]))
             => /\ state'.common_args = Append(state.common_args, args[i + 1])
                /\ state'.explicit_language = state.explicit_language
        /\ (pc = "loop" /\ pc' = "done" /\ stat' = "ok")
             => state'.cpp_args =
                  state.cpp_args
                    \o (IF state'.explicit_language # <<>>
                        THEN <<ArgFromToken(<<"-","x">>), ArgFromToken(state'.explicit_language)>>
                        ELSE <<>>)]_vars

\* -xc before the input file and -xassembler after it: the language is c.
C23_Witness ==
  /\ Succeeded
  /\ state.explicit_language = <<"c">>
  /\ \E k \in 1..Len(dispatched) : dispatched[k].value = <<"a","s","s","e","m","b","l","e","r">>
  /\ Fulls(state.cpp_args) = <<<<"-","x">>, <<"c">>>>

\* What the checks after the loop look at: the compile marker, an input file
\* with a known and one with an unknown extension, an unsupported language
\* and a header language, a preprocessed precompiled header and "-o -".
ChecksPool == {<<"-","c">>, <<"a",".","c">>, <<"a",".","z","z">>, <<"-","x","z","z">>, <<"-","x","c","-","h","e","a","d","e","r">>, <<"-","f","p","c","h","-","p","r","e","p","r","o","c","e","s","s">>, <<"-","o","-">>}

ChecksCmdLines == CmdLines(<<>>, ChecksPool, MaxOpts + 1)

\* Without sloppiness, and with the two that precompiled headers need.
ChecksSloppiness == {{}, {"time_macros", "pch_defines"}}

InitChecks ==
  \E argv \in ChecksCmdLines, sloppiness \in ChecksSloppiness :
    InitWith(argv, MakeConfig(FALSE, TRUE, FALSE, sloppiness, <<"/">>), "unknown", NoEnv, FALSE)

\* Calls that fail one or several of the checks after the loop.
SpecChecks == InitChecks /\ [][Next]_vars

\* The explicit language at the end of the loop, with "none" cleared.
ExplicitLanguage ==
  IF state.explicit_language = <<"n","o","n","e">> THEN <<>> ELSE state.explicit_language

\* The language of the call: the explicit one or the one of the input file.
ActualLanguage ==
  IF ExplicitLanguage # <<>> THEN ExplicitLanguage
  ELSE language_for_file(args_info.input_file)

\* The call makes a precompiled header.
MakesPrecompiledHeader ==
  \/ Contains(ActualLanguage, <<"-","h","e","a","d","e","r">>)
  \/ is_precompiled_header(args_info.output_obj)

\* The Statistic of a call without a compile marker.
LinkStatistic ==
  IF Contains(args_info.input_file, <<"c","o","n","f","t","e","s","t",".">>) THEN "autoconf_test" ELSE "called_for_link"

NoMarker == ~state.found_c_opt /\ ~state.found_dc_opt /\ ~state.found_S_opt

UsesPrecompiledHeader == state.found_pch \/ state.found_fpch_preprocess

\* The Statistic the checks after the loop end with, in the order in which
\* the claim lists them; "pass" if none of them fails.
ChecksAsListed ==
  IF args_info.input_file = <<>> THEN "no_input_file"
  ELSE IF UsesPrecompiledHeader /\ "time_macros" \notin config.sloppiness
       THEN "could_not_use_precompiled_header"
  ELSE IF ~language_is_supported(ActualLanguage) THEN "unsupported_source_language"
  ELSE IF MakesPrecompiledHeader /\ "pch_defines" \notin config.sloppiness
       THEN "could_not_use_precompiled_header"
  ELSE IF NoMarker /\ ~MakesPrecompiledHeader THEN LinkStatistic
  ELSE IF args_info.output_obj = <<"-">> THEN "output_to_stdout"
  ELSE "pass"

\* The same with the language check in two: the explicit language where the
\* claim has it, the language that is missing after the compile marker.
ChecksInOrder ==
  IF args_info.input_file = <<>> THEN "no_input_file"
  ELSE IF UsesPrecompiledHeader /\ "time_macros" \notin config.sloppiness
       THEN "could_not_use_precompiled_header"
  ELSE IF ExplicitLanguage # <<>> /\ ~language_is_supported(ExplicitLanguage)
       THEN "unsupported_source_language"
  ELSE IF MakesPrecompiledHeader /\ "pch_defines" \notin config.sloppiness
       THEN "could_not_use_precompiled_header"
  ELSE IF NoMarker /\ ~MakesPrecompiledHeader THEN LinkStatistic
  ELSE IF ActualLanguage = <<>> THEN "unsupported_source_language"
  ELSE IF args_info.output_obj = <<"-">> THEN "output_to_stdout"
  ELSE "pass"

\* The end of the loop was reached and process_args returns.
AfterLoop == pc = "loop" /\ i >= Len(args) /\ pc' = "done"

\* What a call that passed the checks can return: success, or a Statistic of
\* the checks on the output file.
PassedChecks == {"ok", "bad_output_file", "bad_compiler_arguments"}

TriplePool == {<<"-","t","a","r","g","e","t">>, <<"-","-","s","y","s","r","o","o","t">>, <<"/","w","/","f","o","o","/","b","a","r">>, <<"x","8","6","-","l","i","n","u","x">>}

TripleCmdLines == CmdLines(CompileFrame, TriplePool, MaxOpts)

InitTriple ==
  \E argv \in TripleCmdLines, base_dir \in {<<"/">>, <<>>} :
    InitWith(argv, MakeConfig(FALSE, TRUE, FALSE, {}, base_dir), "unknown", NoEnv, FALSE)

\* Calls with -target.
SpecTriple == InitTriple /\ [][Next]_vars

\* process_arg is called on "-target" and a token follows it.
TargetStep == pc = "loop" /\ i < Len(args) - 1 /\ Is(args[i + 1], <<"-","t","a","r","g","e","t">>)

\* C26 as stated: "-target" and the relativized form of the next token are
\* pushed to common_args, as for "--sysroot <v>".
C26_AsStated ==
  [][TargetStep =>
       state'.common_args =
         state.common_args
           \o <<args[i + 1],
                ArgFromToken(make_relative_path(config.base_dir, args[i + 2].full))>>]_vars

\* C26: "-target" and the next token as it is are pushed to common_args and
\* the next token is skipped; the value is not made relative, other than the
\* value of "--sysroot <v>"; a "-target" that is the last token ends the call
\* with bad_compiler_arguments.
C26_TargetVerbatim ==
  [][/\ TargetStep
          => /\ state'.common_args = state.common_args \o <<args[i + 1], args[i + 2]>>
             /\ state'.cpp_args = state.cpp_args
             /\ state'.dep_args = state.dep_args
             /\ state'.compiler_only_args = state.compiler_only_args
             /\ i' = i + 2
             /\ stat' = "none"
     /\ (pc = "loop" /\ i = Len(args) - 1 /\ Is(args[i + 1], <<"-","t","a","r","g","e","t">>))
          => stat' = "bad_compiler_arguments"]_vars

\* With a base directory, "-target /w/foo/bar" reaches the result as it is,
\* where "--sysroot /w/foo/bar" would be ./foo/bar.
C26_Witness ==
  /\ Succeeded
  /\ config.base_dir = <<"/">>
  /\ \E k \in 1..(Len(result.compiler_args) - 1) :
       /\ result.compiler_args[k].full = <<"-","t","a","r","g","e","t">>
       /\ result.compiler_args[k + 1].full = <<"/","w","/","f","o","o","/","b","a","r">>

\* Headers with a precompiled sibling (h.h has h.h.gch) and without (n.h), a
\* precompiled header file that exists (p.pch), and the options that name
\* them, also behind -Xclang.
PchPool == {<<"-","i","n","c","l","u","d","e">>, <<"h",".","h">>, <<"n",".","h">>, <<"-","i","n","c","l","u","d","e","-","p","c","h">>, <<"p",".","p","c","h">>, <<"-","X","c","l","a","n","g">>}

PchCmdLines ==
  CmdLines(CompileFrame, PchPool, MaxOpts)
    \cup CmdLines(<<<<"-","i","n","c","l","u","d","e">>, <<"h",".","h">>, <<"-","c">>, <<"a",".","c">>>>, PchPool, MaxOpts)

InitPch ==
  \E argv \in PchCmdLines :
    InitWith(argv, MakeConfig(FALSE, TRUE, FALSE, {"time_macros"}, <<"/">>), "clang", NoEnv,
             FALSE)

\* Calls that use precompiled headers.
SpecPch == InitPch /\ [][Next]_vars

\* The index (0-based) of the option process_arg looks at in this call: the
\* one behind a -Xclang that is routed by it.
OptionIndex == IF pc = "loop" /\ i < Len(args) /\ IsXclangPch(Cur) THEN i + 1 ELSE i

\* The index of the path of a takes_path option at OptionIndex: one further
\* behind a -Xclang.
PathIndex ==
  IF OptionIndex + 2 < Len(args) /\ Is(args[OptionIndex + 2], <<"-","X","c","l","a","n","g">>)
  THEN OptionIndex + 2
  ELSE OptionIndex + 1

\* The precompiled header file this call of process_arg detects, empty if it
\* detects none: the argument of -include-pch or -include-pth if it exists,
\* and for another takes_path option (not behind -Xclang) the sibling of its
\* argument with the extension .pth, .pch or .gch that exists.
DetectedPch ==
  IF ~(pc = "loop" /\ OptionIndex < Len(args) - 1
         /\ compopt_takes_path(args[OptionIndex + 1].full)
         /\ ~compopt_affects_comp(args[OptionIndex + 1].full))
  THEN <<>>
  ELSE LET option == args[OptionIndex + 1].full
           path == args[PathIndex + 1].full
       IN IF option \in {<<"-","i","n","c","l","u","d","e","-","p","c","h">>, <<"-","i","n","c","l","u","d","e","-","p","t","h">>}
          THEN (IF Stat(path) # "none" THEN path ELSE <<>>)
          ELSE IF PathIndex # OptionIndex + 1 THEN <<>>
          ELSE IF Stat(path \o <<".","p","t","h">>) # "none" THEN path \o <<".","p","t","h">>
          ELSE IF Stat(path \o <<".","p","c","h">>) # "none" THEN path \o <<".","p","c","h">>
          ELSE IF Stat(path \o <<".","g","c","h">>) # "none" THEN path \o <<".","g","c","h">>
          ELSE <<>>

\* C27: the first precompiled header file that is detected becomes
\* ctx.included_pch_file; a further detection, through -include-pch or
\* -include-pth with a file that exists or through a takes_path option whose
\* argument has a .gch, .pch or .pth sibling, ends the call with
\* bad_compiler_arguments and leaves ctx.included_pch_file as it is; no step
\* changes an included_pch_file that is set.
C27_MultiplePch ==
  [][/\ (DetectedPch # <<>> /\ included_pch_file = <<>>)
          => /\ included_pch_file' = DetectedPch
             /\ state'.found_pch
             /\ stat' = "none"
     /\ (DetectedPch # <<>> /\ included_pch_file # <<>>)
          => stat' = "bad_compiler_arguments"
     /\ included_pch_file # <<>> => included_pch_file' = included_pch_file
     /\ (DetectedPch = <<>> /\ pc = "loop" /\ i < Len(args))
          => included_pch_file' = included_pch_file]_vars

\* "-include h.h" detects h.h.gch, a later "-include-pch p.pch" ends the
\* call, and included_pch_file is still h.h.gch.
C27_Witness ==
  /\ pc = "done"
  /\ stat = "bad_compiler_arguments"
  /\ included_pch_file = <<"h",".","h",".","g","c","h">>
  /\ dispatched # <<>>
  /\ dispatched[Len(dispatched)].full \in {<<"-","i","n","c","l","u","d","e","-","p","c","h">>, <<"-","X","c","l","a","n","g">>}

\* The values of the -MF options process_arg was called on.
MFValues ==
  {dispatched[k].value : k \in {h \in 1..Len(dispatched) : dispatched[h].key = <<"-","M","F">>}}

\* C29: whenever process_args succeeds with args_info.generating_dependencies
\* set, args_info.output_dep is not empty, and with a -MF option it is the
\* relativized value of a -MF option.
C29_AsStated ==
  (Succeeded /\ args_info.generating_dependencies)
    => /\ args_info.output_dep # <<>>
       /\ MFValues # {} => \E v \in MFValues : args_info.output_dep = Rel(Cur, v)

\* The compile markers, -S, an option that takes the next token as its
\* argument, and the language that makes a precompiled header.
CompileMarkerPool == {<<"-","c">>, <<"-","d","c">>, <<"-","-","d","e","v","i","c","e","-","c">>, <<"-","S">>, <<"-","X","l","i","n","k","e","r">>, <<"-","x","c","-","h","e","a","d","e","r">>}

CompileMarkerCmdLines == CmdLines(<<<<"a",".","c">>>>, CompileMarkerPool, MaxOpts + 1)

InitMarker ==
  \E argv \in CompileMarkerCmdLines, compiler \in {"gcc", "nvcc"} :
    InitWith(argv, MakeConfig(FALSE, TRUE, FALSE, {"time_macros", "pch_defines"}, <<"/">>),
             compiler, NoEnv, FALSE)

\* Calls with compile markers, for GCC and for NVCC.
SpecMarker == InitMarker /\ [][Next]_vars

\* The number of arguments of the vector that are the token.
CountOf(vector, token) == Cardinality({k \in 1..Len(vector) : vector[k].full = token})

\* The number of occurrences of the token that process_arg was not called
\* on: the ones another option took as its argument.
TakenAsArgument(token) == CountOf(args, token) - CountOf(dispatched, token)

\* process_arg was called on -c; on -dc or --device-c with NVCC; on -S.
SeenC == CountOf(dispatched, <<"-","c">>) > 0
SeenDC ==
  /\ guessed_compiler = "nvcc"
  /\ CountOf(dispatched, <<"-","d","c">>) + CountOf(dispatched, <<"-","-","d","e","v","i","c","e","-","c">>) > 0
SeenS == CountOf(dispatched, <<"-","S">>) > 0

\* The -c that is added for a precompiled header made without a marker.
InjectedC == ~SeenC /\ ~SeenDC /\ ~SeenS /\ args_info.output_is_precompiled_header

\* C30: after a successful call compiler_args has one -c if -c occurred as an
\* option, however often, and with NVCC one -dc if -dc or --device-c occurred;
\* preprocessor_args and extra_args_to_hash have no -c; the exception is the
\* one -c of a precompiled header made without -c, -dc and -S, which is in
\* preprocessor_args and compiler_args once. A -c or -dc that another option
\* takes as its argument goes where that option goes and is not counted.
C30_CompileMarker ==
  Succeeded =>
    /\ CountOf(result.compiler_args, <<"-","c">>)
         = (IF SeenC \/ InjectedC THEN 1 ELSE 0) + TakenAsArgument(<<"-","c">>)
    /\ CountOf(result.preprocessor_args, <<"-","c">>) + CountOf(result.extra_args_to_hash, <<"-","c">>)
         = (IF InjectedC THEN 1 ELSE 0) + TakenAsArgument(<<"-","c">>)
    /\ CountOf(result.preprocessor_args, <<"-","c">>) >= (IF InjectedC THEN 1 ELSE 0)
    /\ guessed_compiler = "nvcc" =>
         /\ CountOf(result.compiler_args, <<"-","d","c">>)
              = (IF SeenDC THEN 1 ELSE 0) + TakenAsArgument(<<"-","d","c">>)
         /\ CountOf(result.compiler_args, <<"-","-","d","e","v","i","c","e","-","c">>) = TakenAsArgument(<<"-","-","d","e","v","i","c","e","-","c">>)
         /\ CountOf(result.preprocessor_args, <<"-","d","c">>) + CountOf(result.extra_args_to_hash, <<"-","d","c">>)
              = TakenAsArgument(<<"-","d","c">>)

\* -c twice and --device-c with NVCC: one -c and one -dc in compiler_args.
C30_Witness ==
  /\ Succeeded
  /\ guessed_compiler = "nvcc"
  /\ CountOf(dispatched, <<"-","c">>) = 2
  /\ CountOf(dispatched, <<"-","-","d","e","v","i","c","e","-","c">>) = 1
  /\ CountOf(result.compiler_args, <<"-","c">>) = 1
  /\ CountOf(result.compiler_args, <<"-","d","c">>) = 1

====
